---- MODULE Spec2Model ----
(***************************************************************************)
(* Prediction lifecycle engine of the card-prediction bot.                 *)
(*                                                                         *)
(*  - live tracker      : main.py  handle_new_message,                     *)
(*                        verify_active_predictions, /r and /a commands    *)
(*  - imported tracker  : main.py  verify_excel_predictions,               *)
(*                        update_prediction_status;                        *)
(*                        excel_importer.py  ExcelPredictionManager        *)
(*                                                                         *)
(* The handlers are asyncio coroutines: the code between two awaits runs   *)
(* without interruption, so one action of the model is one run of a        *)
(* handler from an await (or its start) to the next await (or its end).    *)
(* The awaits that matter are the transport effects: edit_message and      *)
(* send_message; each can succeed or raise.                                *)
(*                                                                         *)
(* A message text is modelled by what the regular expressions of the code  *)
(* read from it: the game number, the marker glyphs, the first-group point *)
(* value, the 6-cards of the first two groups, the #T metric, the tie      *)
(* marker.  The metric is kept doubled (tval = 2 * #T) so that 10.5 is the *)
(* integer 21.  Record keys are str(numero); the model keeps the number.   *)
(***************************************************************************)
EXTENDS Integers, Sequences, FiniteSets, TLC

\* ------------------------------------------------------------------ bounds
MaxGame == 4
MaxRecords == 2
MaxRows == 2

\* ------------------------------------------------------- program constants
DefaultA == 1
DefaultR == 2
MinR == 0
MaxR == 10
ExcelMaxOffset == 2
JoueurMin == 7
BanquierMax == 4
TThreshold2 == 21
SkipTotal == 6
Tolerance == 4

\* --------------------------------------------------------------- alphabets
Games == 1..MaxGame
NoPoint == -1
Points == {NoPoint, BanquierMax, SkipTotal, JoueurMin}
MarkSets == {{}, {"clock"}, {"check"}, {"alt"}, {"clock", "check"}}
Outcomes == {"joueur", "banquier"}

\* what the trigger policy reads besides the point value
SigPlain == [tie |-> FALSE, six1 |-> 0, six2 |-> 0, ngroups |-> 2, tval |-> 2 * 9]
SigHigh == [tie |-> FALSE, six1 |-> 1, six2 |-> 0, ngroups |-> 2, tval |-> 2 * 12]
SigLow == [tie |-> FALSE, six1 |-> 1, six2 |-> 0, ngroups |-> 2, tval |-> TThreshold2]
SigTie == [tie |-> TRUE, six1 |-> 1, six2 |-> 0, ngroups |-> 2, tval |-> 2 * 12]
Sigs == {SigPlain, SigHigh, SigLow}

Msg(n, mk, p, s) ==
    [num |-> n, marks |-> mk, pt |-> p, tie |-> s.tie,
     six1 |-> IF p = NoPoint THEN 0 ELSE s.six1,
     six2 |-> IF p = NoPoint THEN 0 ELSE s.six2,
     ngroups |-> IF p = NoPoint THEN 0 ELSE s.ngroups,
     tval |-> s.tval]

Messages == {Msg(n, mk, p, s) : n \in Games, mk \in MarkSets, p \in Points, s \in Sigs}

\* the live tracker reads of the glyphs only whether one of the two
\* finalization glyphs is present: every game with the first of them, and
\* one triggering text per game with the second and with none
LiveMessages ==
    {m \in Messages :
        \/ m.marks = {"check"}
        \/ m.marks \in {{}, {"alt"}} /\ m.pt = JoueurMin /\ m.tval = SigHigh.tval}

NoMsg == Msg(0, {}, NoPoint, SigPlain)

RVals == {0, 2, 3, 11}
AVals == {1, 2}

\* ------------------------------------------------------------ message parser
is_finalized_message(m) == "check" \in m.marks \/ "alt" \in m.marks

is_tie_game(m) == m.tie

has_six_in_first_group(m) == m.ngroups >= 1 /\ m.six1 >= 1

has_six_in_both_groups(m) == m.ngroups >= 2 /\ m.six1 >= 1 /\ m.six2 >= 1

count_sixes_in_groups(m) == m.six1 + m.six2

get_first_group_total(m) == IF m.ngroups >= 1 THEN m.pt ELSE -1

extract_t_value(m) == m.tval

extract_points_and_winner(m) == m.pt

\* the skip rules without the tie rule
should_skip_prediction_but_ties(m) ==
    IF has_six_in_both_groups(m) THEN TRUE
    ELSE IF count_sixes_in_groups(m) >= 2 THEN TRUE
    ELSE IF get_first_group_total(m) = SkipTotal /\ has_six_in_first_group(m) THEN TRUE
    ELSE FALSE

should_skip_prediction(m) ==
    IF is_tie_game(m) THEN TRUE
    ELSE IF has_six_in_both_groups(m) THEN TRUE
    ELSE IF count_sixes_in_groups(m) >= 2 THEN TRUE
    ELSE IF get_first_group_total(m) = SkipTotal /\ has_six_in_first_group(m) THEN TRUE
    ELSE FALSE

VERIFICATION_EMOJIS ==
    <<"ok0", "ok1", "ok2", "ok3", "ok4", "ok5", "ok6", "ok7", "ok8", "ok9", "ok10">>

\* the token of the attempt count k + 1 in place of the token of index k
StatusEmojiOfAttempt(k) == IF k \in 0..9 THEN VERIFICATION_EMOJIS[k + 2] ELSE "okN"

\* VERIFICATION_EMOJIS.get(current_offset, f"ok{current_offset}")
StatusEmoji(k) == IF k \in 0..10 THEN VERIFICATION_EMOJIS[k + 1] ELSE "okN"

\* ------------------------------------------------------------------- state
VARIABLES
    active_predictions,   \* live record map: predicted number -> record
    active_order,         \* insertion order of the keys of the map
    r_offset,             \* max_offset of the live tracker
    a_offset,             \* predicted number = game number + a_offset
    config_file,          \* snapshot written by save_config
    predictions,          \* excel_manager.predictions: numero -> record
    predictions_order,    \* insertion order of its keys
    last_launched_numero, \* excel_manager.last_launched_numero (0: None)
    predictions_file,     \* snapshot written by save_predictions
    acts,                 \* handler activations suspended at an await
    delivered,            \* effect log: deliveries per predicted number
    compared,             \* effect log: (live, key, offset) compared to a point
    recompared,           \* the ones compared more than once
    skipped,              \* effect log: (key, offset) passed over by a realignment
                          \* of a record that is not verified yet
    workbook,             \* rows of the sheet at file_path, for the import of a
                          \* given file
    last                  \* effects of the handler run that has just ended

vars == <<active_predictions, active_order, r_offset, a_offset, config_file,
          predictions, predictions_order, last_launched_numero, predictions_file,
          acts, delivered, compared, recompared, skipped, workbook, last>>

liveVars == <<active_predictions, active_order, r_offset, a_offset, config_file>>
excelVars == <<predictions, predictions_order, last_launched_numero, predictions_file>>

ActIds == {1, 2}

EmptyMap == [k \in {} |-> 0]

Idle == [pc |-> "idle", msg |-> NoMsg, todo |-> <<>>, key |-> 0, off |-> 0,
         emoji |-> "none", expected |-> "none", pre |-> EmptyMap, pre_r |-> 0,
         fx |-> {}]

\* the record handle_new_message registers (no "attempts" and no "status"
\* key: pred_data.get("attempts", 0) reads 0, status is absent)
NewRecord(expected) ==
    [message_id |-> TRUE, channel_id |-> TRUE, expected |-> expected,
     attempts |-> 0, verified |-> FALSE, status |-> "none"]

\* a record of bot_config.json that carries no message reference
LoadedRecord(expected) ==
    [message_id |-> FALSE, channel_id |-> FALSE, expected |-> expected,
     attempts |-> 0, verified |-> FALSE, status |-> "none"]

\* an assignment that leaves the new key alone in the map
PutAlone(map, k, v) == [x \in {k} |-> v]

\* map[k] = v of a dict
Put(map, k, v) == [x \in (DOMAIN map) \cup {k} |-> IF x = k THEN v ELSE map[x]]

PutOrder(order, map, k) == IF k \in DOMAIN map THEN order ELSE Append(order, k)

\* ============================================================ live tracker
LiveJoueur2 == 13
LiveBanquier2 == 9

\* the comparison with a joueur threshold of 5.5
LiveIsSuccessFromSix(expected, point) ==
    IF expected = "joueur" THEN 2 * point > LiveJoueur2 - 2
    ELSE IF expected = "banquier" THEN 2 * point < LiveBanquier2
    ELSE FALSE

\* lines 712-723: point > 6.5 for joueur, point < 4.5 for banquier
LiveIsSuccess(expected, point) ==
    IF expected = "joueur" THEN 2 * point > LiveJoueur2
    ELSE IF expected = "banquier" THEN 2 * point < LiveBanquier2
    ELSE FALSE

\* the part of the state a synchronous run of a live handler reads and writes
\* (disk: whether the writes of the configuration file go through)
LiveWorld ==
    [ap |-> active_predictions, order |-> active_order, file |-> config_file,
     cmp |-> compared, recmp |-> recompared, dl |-> delivered, disk |-> TRUE]

\* a save that puts the records back to the saved ones when the write raises
save_config_or_restore(w) ==
    IF w.disk
    THEN [w EXCEPT !.file = [active_predictions |-> w.ap, active_order |-> w.order,
                             r_offset |-> r_offset, a_offset |-> a_offset]]
    ELSE [w EXCEPT !.ap = w.file.active_predictions, !.order = w.file.active_order]

\* save_config: whole snapshot of the configuration and of the record map;
\* an exception of the write is caught and printed (lines 149-150)
save_config(w) ==
    IF w.disk
    THEN [w EXCEPT !.file = [active_predictions |-> w.ap, active_order |-> w.order,
                             r_offset |-> r_offset, a_offset |-> a_offset]]
    ELSE w

NoteCompared(w, k, off) ==
    [w EXCEPT !.cmp = @ \cup {<<"live", k, off>>},
              !.recmp = IF <<"live", k, off>> \in w.cmp
                        THEN @ \cup {<<"live", k, off>>} ELSE @]

Suspend(a, pc, todo, k, off, emoji, expected) ==
    [a EXCEPT !.pc = pc, !.todo = todo, !.key = k, !.off = off,
              !.emoji = emoji, !.expected = expected]

\* the choice of the outcome with #T >= 10.5 for joueur
prediction_type_from_threshold(t_value) ==
    IF t_value >= TThreshold2 THEN "joueur" ELSE "banquier"

\* lines 1266-1274: joueur when #T > 10.5, banquier otherwise
prediction_type(t_value) == IF t_value > TThreshold2 THEN "joueur" ELSE "banquier"

\* lines 1211-1256: the filters a message passes before the duplicate check
IsTrigger(m) ==
    /\ is_finalized_message(m)
    /\ ~should_skip_prediction(m)
    /\ has_six_in_first_group(m)
    /\ extract_t_value(m) >= 0

\* effect log of a run: the message was not finalized
NoteWaiting(a) == [a EXCEPT !.pc = "done", !.fx = @ \cup {<<"waiting", 0, "none", TRUE>>}]

\* effect log of a run: the message was passed over by the tie rule alone,
\* being finalized with one 6, in its first group, and a metric
NoteSkipped(a) ==
    LET m == a.msg
    IN  IF /\ is_tie_game(m)
           /\ has_six_in_first_group(m)
           /\ count_sixes_in_groups(m) = 1
           /\ get_first_group_total(m) # SkipTotal
           /\ extract_t_value(m) >= 0
        THEN [a EXCEPT !.pc = "done", !.fx = @ \cup {<<"tie", 0, "signal", TRUE>>}]
        ELSE [a EXCEPT !.pc = "done"]

\* the trigger without the test of line 1262
TriggerStepNoDuplicateCheck(a, w) ==
    LET m == a.msg
        predicted_numero == m.num + a_offset
    IN  IF ~is_finalized_message(m) THEN [w |-> w, act |-> NoteWaiting(a)]
        ELSE IF should_skip_prediction(m) THEN [w |-> w, act |-> NoteSkipped(a)]
        ELSE IF ~has_six_in_first_group(m) THEN [w |-> w, act |-> [a EXCEPT !.pc = "done"]]
        ELSE IF extract_t_value(m) < 0 THEN [w |-> w, act |-> [a EXCEPT !.pc = "done"]]
        ELSE [w |-> w,
              act |-> Suspend(a, "send", <<>>, predicted_numero, 0, "none",
                              prediction_type(extract_t_value(m)))]

\* handle_new_message from the end of the verification pass to the await of
\* send_message, or to its return
TriggerStep(a, w) ==
    LET m == a.msg
        predicted_numero == m.num + a_offset
    IN  IF ~is_finalized_message(m) THEN [w |-> w, act |-> NoteWaiting(a)]
        ELSE IF should_skip_prediction(m) THEN [w |-> w, act |-> NoteSkipped(a)]
        ELSE IF ~has_six_in_first_group(m) THEN [w |-> w, act |-> [a EXCEPT !.pc = "done"]]
        ELSE IF extract_t_value(m) < 0 THEN [w |-> w, act |-> [a EXCEPT !.pc = "done"]]
        ELSE IF predicted_numero \in DOMAIN w.ap
             THEN [w |-> w,
                   act |-> [a EXCEPT !.pc = "done",
                                     !.fx = @ \cup {<<"duplicate", predicted_numero,
                                                      "none", TRUE>>}]]
        ELSE [w |-> w,
              act |-> Suspend(a, "send", <<>>, predicted_numero, 0, "none",
                              prediction_type(extract_t_value(m)))]

\* the expired branch without the write of verified
MarkExpiredStatusOnly(w, k) ==
    save_config([w EXCEPT !.ap[k].status = "X", !.ap[k].attempts = r_offset + 1])

\* lines 690-693: the writes of the expired branch
MarkExpired(w, k) ==
    save_config([w EXCEPT !.ap[k].verified = TRUE, !.ap[k].status = "X",
                          !.ap[k].attempts = r_offset + 1])

\* effect log of a run: no point could be read for record k
NoteNoPoint(a, k) == [a EXCEPT !.fx = @ \cup {<<"nopoint", k, "none", TRUE>>}]

\* a parse miss that consumes the attempt
AfterParseMissConsumed(w, k, current_offset) ==
    [w EXCEPT !.ap[k].attempts = current_offset]

\* lines 706-710: without a point the loop goes on, nothing is written
AfterParseMiss(w, k, current_offset) == w

\* a test that lets the offset of the last attempt be tested again
IsUntestedOffsetOrLast(current_offset, attempts_done) == current_offset >= attempts_done

\* line 697: only an offset above the attempts made is tested
IsUntestedOffset(current_offset, attempts_done) == current_offset > attempts_done

\* a key of the record map that is not the decimal writing of a number
\* (the keys of bot_config.json are strings)
NotANumber == -1

\* line 659: int(pred_numero_str) raises ValueError on such a key; neither
\* verify_active_predictions nor handle_new_message catches it, so the
\* handling of the message ends there
ValueError(a, w) ==
    [w |-> w, act |-> [a EXCEPT !.pc = "done",
                                !.fx = @ \cup {<<"raised", 0, "none", FALSE>>}]]

\* verify_active_predictions from the record at the head of todo to the next
\* await of edit_message, then handle_new_message up to its next await
RECURSIVE LiveRun(_, _, _)
LiveRun(a, todo, w) ==
    IF todo = <<>> THEN TriggerStep(a, w)
    ELSE
    LET k == Head(todo)
        rest == Tail(todo)
        pred_data == w.ap[k]
        game_number == a.msg.num
        attempts_done == pred_data.attempts
        current_offset == game_number - k
        has_ref == pred_data.message_id /\ pred_data.channel_id
        point == extract_points_and_winner(a.msg)
        is_success == LiveIsSuccess(pred_data.expected, point)
        tested == NoteCompared([w EXCEPT !.ap[k].attempts = current_offset],
                               k, current_offset)
    IN  IF k = NotANumber THEN ValueError(a, w)
        ELSE IF pred_data.verified THEN LiveRun(a, rest, w)
        ELSE IF game_number < k THEN LiveRun(a, rest, w)
        ELSE IF current_offset > r_offset
             THEN IF has_ref
                  THEN [w |-> w,
                        act |-> Suspend(a, "edit_expired", rest, k, current_offset,
                                        "X", pred_data.expected)]
                  ELSE LiveRun(a, rest, MarkExpired(w, k))
        ELSE IF IsUntestedOffset(current_offset, attempts_done)
             THEN IF ~has_ref THEN LiveRun(a, rest, w)
                  ELSE IF point = NoPoint
                       THEN LiveRun(NoteNoPoint(a, k), rest,
                                    AfterParseMiss(w, k, current_offset))
                  ELSE IF is_success
                       THEN [w |-> tested,
                             act |-> Suspend(a, "edit_success", rest, k, current_offset,
                                             StatusEmoji(current_offset),
                                             pred_data.expected)]
                  ELSE IF current_offset >= r_offset
                       THEN [w |-> tested,
                             act |-> Suspend(a, "edit_failure", rest, k, current_offset,
                                             "X", pred_data.expected)]
                  ELSE LiveRun(a, rest, save_config(tested))
        ELSE LiveRun(a, rest, w)

\* the pass made for every message
LiveStartAnyMessage(a, w) == LiveRun(a, w.order, w)

\* verify_active_predictions: the pass is skipped for a non-finalized message
LiveStart(a, w) ==
    IF ~is_finalized_message(a.msg) THEN TriggerStep(a, w)
    ELSE LiveRun(a, w.order, w)

\* the writes after the edit without the one of the status
AfterEditFlagOnly(a, w, ok) ==
    IF a.pc = "edit_expired" THEN MarkExpired(w, a.key)
    ELSE IF ok THEN save_config([w EXCEPT !.ap[a.key].verified = TRUE])
    ELSE w

\* the writes of every branch made only when the edit returned
AfterEditWhenReturned(a, w, ok) ==
    IF ~ok THEN w
    ELSE IF a.pc = "edit_expired" THEN MarkExpired(w, a.key)
    ELSE save_config([w EXCEPT !.ap[a.key].verified = TRUE,
                               !.ap[a.key].status = a.emoji])

\* the writes that follow the awaited edit_message, by branch and outcome
AfterEdit(a, w, ok) ==
    IF a.pc = "edit_expired" THEN MarkExpired(w, a.key)
    ELSE IF ok
         THEN save_config([w EXCEPT !.ap[a.key].verified = TRUE,
                                    !.ap[a.key].status = a.emoji])
         ELSE w

\* a registration made whether send_message returned or raised
AfterSendRegistersAnyway(a, w, ok) ==
    save_config([w EXCEPT !.ap = Put(w.ap, a.key,
                                     IF ok THEN NewRecord(a.expected)
                                     ELSE LoadedRecord(a.expected)),
                          !.order = PutOrder(w.order, w.ap, a.key),
                          !.dl[a.key] = IF ok /\ @ < 2 THEN @ + 1 ELSE @])

\* lines 1281-1291: registration after a successful send_message
AfterSend(a, w, ok) ==
    IF ok
    THEN save_config([w EXCEPT !.ap = Put(w.ap, a.key, NewRecord(a.expected)),
                               !.order = PutOrder(w.order, w.ap, a.key),
                               !.dl[a.key] = IF @ < 2 THEN @ + 1 ELSE @])
    ELSE w

\* ------------------------------------------------------ live tracker actions
Keys == 1..(MaxGame + 2)

AllIdle == \A i \in ActIds : acts[i].pc = "idle"

Sending == {i \in ActIds : acts[i].pc = "send"}

\* bound on the inputs: the stream holds at most MaxRecords triggering games
Admissible(m) ==
    \/ Cardinality(DOMAIN active_predictions) + Cardinality(Sending) < MaxRecords
    \/ ~IsTrigger(m)
    \/ m.num + a_offset \in DOMAIN active_predictions

\* the state after a synchronous run of activation i
Apply(i, res) ==
    /\ active_predictions' = res.w.ap
    /\ active_order' = res.w.order
    /\ config_file' = res.w.file
    /\ compared' = res.w.cmp
    /\ recompared' = res.w.recmp
    /\ UNCHANGED <<skipped, workbook>>
    /\ delivered' = res.w.dl
    /\ acts' = [acts EXCEPT ![i] = IF res.act.pc = "done" THEN Idle ELSE res.act]
    /\ last' = IF res.act.pc = "done" THEN res.act.fx ELSE {}
    /\ UNCHANGED <<r_offset, a_offset>>
    /\ UNCHANGED excelVars

\* handle_new_message, from the event to its first await or its return
StartRun(m) ==
    LiveStart([Idle EXCEPT !.msg = m, !.pre = active_predictions, !.pre_r = r_offset],
              LiveWorld)

Editing(i) == acts[i].pc \in {"edit_expired", "edit_success", "edit_failure"}

Resumed(a, ok) == [a EXCEPT !.fx = @ \cup {<<a.pc, a.key, a.emoji, ok>>}]

\* the handler from the return (ok) or the exception (~ok) of the awaited
\* edit_message to its next await or its return
ResumeEdit(a, ok) == LiveRun(Resumed(a, ok), a.todo, AfterEdit(a, LiveWorld, ok))

\* the handler from the return or the exception of send_message to its return
ResumeSend(a, ok) ==
    [w |-> AfterSend(a, LiveWorld, ok), act |-> [Resumed(a, ok) EXCEPT !.pc = "done"]]

NewMessage(i, m) ==
    /\ acts[i].pc = "idle"
    /\ Admissible(m)
    /\ Apply(i, StartRun(m))

\* client.edit_message returns
EditOk(i) == Editing(i) /\ Apply(i, ResumeEdit(acts[i], TRUE))

\* client.edit_message raises: the except clause logs, the handler goes on
EditFails(i) == Editing(i) /\ Apply(i, ResumeEdit(acts[i], FALSE))

\* client.send_message returns: the record is registered and saved
SendOk(i) == acts[i].pc = "send" /\ Apply(i, ResumeSend(acts[i], TRUE))

\* client.send_message raises: nothing is registered
SendFails(i) == acts[i].pc = "send" /\ Apply(i, ResumeSend(acts[i], FALSE))

\* /r without the test of the range
set_r_offset_unchecked(value) ==
    /\ r_offset' = value
    /\ config_file' = [active_predictions |-> active_predictions,
                       active_order |-> active_order,
                       r_offset |-> value, a_offset |-> a_offset]
    /\ UNCHANGED <<active_predictions, active_order, a_offset, acts,
                   delivered, compared, recompared, skipped, workbook>>
    /\ last' = {}
    /\ UNCHANGED excelVars

\* /r: a value outside 0..10 is answered with an error and changes nothing
\* (the answer is the effect logged for the command)
set_r_offset(value) ==
    /\ r_offset' = IF value < MinR \/ value > MaxR THEN r_offset ELSE value
    /\ config_file' = IF value < MinR \/ value > MaxR THEN config_file
                      ELSE [active_predictions |-> active_predictions,
                            active_order |-> active_order,
                            r_offset |-> value, a_offset |-> a_offset]
    /\ UNCHANGED <<active_predictions, active_order, a_offset, acts,
                   delivered, compared, recompared, skipped, workbook>>
    /\ last' = IF value < MinR \/ value > MaxR
               THEN {<<"invalid", 0, "none", TRUE>>} ELSE {}
    /\ UNCHANGED excelVars

\* /a: any number is accepted
set_a_offset(value) ==
    /\ a_offset' = value
    /\ config_file' = [active_predictions |-> active_predictions,
                       active_order |-> active_order,
                       r_offset |-> r_offset, a_offset |-> value]
    /\ UNCHANGED <<active_predictions, active_order, r_offset, acts,
                   delivered, compared, recompared, skipped, workbook>>
    /\ last' = {}
    /\ UNCHANGED excelVars

\* start_bot: load_config reads the record map of bot_config.json
InitialMaps == {EmptyMap, [k \in {2} |-> LoadedRecord("joueur")]}

InitialOrder(map) == IF map = EmptyMap THEN <<>> ELSE <<2>>

Init ==
    /\ active_predictions \in InitialMaps
    /\ active_order = InitialOrder(active_predictions)
    /\ r_offset = DefaultR
    /\ a_offset = DefaultA
    /\ config_file = [active_predictions |-> active_predictions,
                      active_order |-> active_order,
                      r_offset |-> r_offset, a_offset |-> a_offset]
    /\ predictions = EmptyMap
    /\ predictions_order = <<>>
    /\ last_launched_numero = 0
    /\ predictions_file = EmptyMap
    /\ acts = [i \in ActIds |-> Idle]
    /\ delivered = [k \in Keys |-> 0]
    /\ compared = {}
    /\ recompared = {}
    /\ skipped = {}
    /\ workbook = <<>>
    /\ last = {}

\* messages and commands handled strictly one at a time
MessageArrives == \E m \in LiveMessages : AllIdle /\ NewMessage(1, m)
EditReturns == EditOk(1)
EditRaises == EditFails(1)
SendReturns == SendOk(1)
SendRaises == SendFails(1)
CommandR == \E v \in RVals : AllIdle /\ set_r_offset(v)
CommandA == \E v \in AVals : AllIdle /\ set_a_offset(v)

Next ==
    \/ MessageArrives
    \/ EditReturns
    \/ EditRaises
    \/ SendReturns
    \/ SendRaises
    \/ CommandR

Spec == Init /\ [][Next]_vars

\* ======================================================== imported tracker
XNums == 1..2
ImportRow == [numero : XNums, victoire : Outcomes]
ImportFiles == UNION {[1..n -> ImportRow] : n \in 0..MaxRows}

ExcelMessages == {m \in Messages : m.tval = SigPlain.tval /\ m.six1 = 0}

\* the record import_excel creates ("current_offset" and "verified" are
\* absent and read as 0 and False by pred.get)
ImportedRecord(row) ==
    [numero |-> row.numero, victoire |-> row.victoire, launched |-> FALSE,
     message_id |-> FALSE, channel_id |-> FALSE, current_offset |-> 0,
     verified |-> FALSE, skipped_consecutive |-> FALSE]

\* the scan in which a dropped identifier becomes the reference of the next
RECURSIVE ImportRowsChained(_, _, _, _)
ImportRowsChained(rows, map, order, last_numero) ==
    IF rows = <<>> THEN [map |-> map, order |-> order]
    ELSE LET row == Head(rows)
         IN  IF row.numero = 0
             THEN ImportRowsChained(Tail(rows), map, order, last_numero)
             ELSE IF last_numero # 0 /\ row.numero = last_numero + 1
             THEN ImportRowsChained(Tail(rows), map, order, row.numero)
             ELSE ImportRowsChained(Tail(rows), Put(map, row.numero, ImportedRecord(row)),
                                    PutOrder(order, map, row.numero), row.numero)

\* import_excel, lines 46-90: the rows in order, a row with an empty cell
\* (numero 0) is passed over, an identifier equal to the last retained one
\* plus one is dropped (last_numero 0 stands for None)
RECURSIVE ImportRows(_, _, _, _)
ImportRows(rows, map, order, last_numero) ==
    IF rows = <<>> THEN [map |-> map, order |-> order]
    ELSE LET row == Head(rows)
         IN  IF row.numero = 0 THEN ImportRows(Tail(rows), map, order, last_numero)
             ELSE IF last_numero # 0 /\ row.numero = last_numero + 1
             THEN ImportRows(Tail(rows), map, order, last_numero)
             ELSE ImportRows(Tail(rows), Put(map, row.numero, ImportedRecord(row)),
                             PutOrder(order, map, row.numero), row.numero)

\* the part of the state a synchronous run of the imported tracker uses
ExcelWorld ==
    [xp |-> predictions, file |-> predictions_file, skip |-> skipped, disk |-> TRUE]

\* save_predictions: an exception of the write is caught and printed
save_predictions(w) == IF w.disk THEN [w EXCEPT !.file = w.xp] ELSE w

\* effect log of a run: a point value was compared for record k at offset off
OffsetName(off) == IF off \in 0..2 THEN <<"at0", "at1", "at2">>[off + 1] ELSE "beyond"

NoteExcelCompared(a, k, off) ==
    [a EXCEPT !.fx = @ \cup {<<"compare", k, OffsetName(off), TRUE>>}]

\* effect log of a run: current_offset of record k was stored and saved
NoteStored(a, k, off) ==
    [a EXCEPT !.fx = @ \cup {<<"store", k, OffsetName(off), TRUE>>}]

\* the comparison with a banquier threshold of 5
ExcelIsSuccessToFive(expected_winner, joueur_point) ==
    IF expected_winner = "banquier" THEN joueur_point <= BanquierMax + 1
    ELSE joueur_point >= JoueurMin

\* the comparison with a joueur threshold of 6
ExcelIsSuccessFromSix(expected_winner, joueur_point) ==
    IF expected_winner = "banquier" THEN joueur_point <= BanquierMax
    ELSE joueur_point >= JoueurMin - 1

\* lines 305-319: joueur succeeds on a point >= 7, banquier on a point <= 4
ExcelIsSuccess(expected_winner, joueur_point) ==
    IF expected_winner = "banquier" THEN joueur_point <= BanquierMax
    ELSE joueur_point >= JoueurMin

\* verify_excel_prediction: status ("none" for None), should_continue, and
\* whether a point value was compared, at which offset
verify_excel_prediction(game_number, m, predicted_numero, expected_winner, offset_arg) ==
    LET real_offset_from_game == game_number - predicted_numero
        current_offset == real_offset_from_game
        target_number == predicted_numero + current_offset
        joueur_point == extract_points_and_winner(m)
        is_success == ExcelIsSuccess(expected_winner, joueur_point)
        Result(st, cont, cmp) ==
            [status |-> st, should_continue |-> cont, compared |-> cmp,
             offset |-> current_offset]
    IN  IF real_offset_from_game < 0 THEN Result("none", TRUE, FALSE)
        ELSE IF real_offset_from_game > ExcelMaxOffset THEN Result("X", FALSE, FALSE)
        ELSE IF game_number # target_number THEN Result("none", TRUE, FALSE)
        ELSE IF "clock" \in m.marks THEN Result("none", TRUE, FALSE)
        ELSE IF ~("check" \in m.marks \/ "alt" \in m.marks)
             THEN Result("none", TRUE, FALSE)
        ELSE IF joueur_point = NoPoint
             THEN IF "check" \in m.marks /\ "alt" \notin m.marks
                  THEN Result("X", FALSE, FALSE)
                  ELSE Result("none", TRUE, FALSE)
        ELSE IF is_success
             THEN Result(IF real_offset_from_game \in 0..2
                         THEN StatusEmoji(real_offset_from_game) ELSE "ok2",
                         FALSE, TRUE)
        ELSE IF current_offset < ExcelMaxOffset THEN Result("none", TRUE, TRUE)
        ELSE Result("X", FALSE, TRUE)

\* lines 779-781: the while loop of the gap detection
RECURSIVE SkipAhead(_, _, _)
SkipAhead(current_offset, game_number, pred_numero) ==
    IF current_offset <= ExcelMaxOffset /\ game_number > pred_numero + current_offset
    THEN SkipAhead(current_offset + 1, game_number, pred_numero)
    ELSE current_offset

\* the filter of the pass without the test of verified
ExcelSkipsUnlaunchedOnly(pred) == ~pred.launched

\* lines 766-768: records not launched or already verified are passed over
ExcelSkips(pred) == ~pred.launched \/ pred.verified

\* an advance that is stored whatever the offset
StoresOffsetAlways(new_offset) == TRUE

\* line 801: the next offset is stored when it is at most 2
StoresOffset(new_offset) == new_offset <= ExcelMaxOffset

\* update_prediction_status up to its await: without a message reference it
\* returns at once and the loop goes on
RECURSIVE ExcelRun(_, _, _)
UpdateStatus(a, rest, w, k, status) ==
    IF w.xp[k].message_id /\ w.xp[k].channel_id
    THEN [w |-> w, act |-> Suspend(a, "xedit", rest, k, 0, status, w.xp[k].victoire)]
    ELSE ExcelRun(a, rest, w)

\* verify_excel_predictions from the record at the head of todo to the next
\* await or to the end of the loop
ExcelRun(a, todo, w) ==
    IF todo = <<>> THEN [w |-> w, act |-> [a EXCEPT !.pc = "done"]]
    ELSE
    LET k == Head(todo)
        rest == Tail(todo)
        pred == w.xp[k]
        game_number == a.msg.num
        pred_numero == pred.numero
        stored_offset == pred.current_offset
        target_number == pred_numero + stored_offset
        jumped == game_number > target_number
        current_offset == IF jumped THEN SkipAhead(stored_offset, game_number, pred_numero)
                          ELSE stored_offset
        passed == [w EXCEPT !.skip = @ \cup {<<k, OffsetName(j)>> :
                                        j \in stored_offset..(current_offset - 1)}]
        w1 == IF jumped /\ current_offset <= ExcelMaxOffset
              THEN save_predictions([passed EXCEPT !.xp[k].current_offset = current_offset])
              ELSE w
        v == verify_excel_prediction(game_number, a.msg, pred_numero,
                                     pred.victoire, current_offset)
        realigned == jumped /\ current_offset <= ExcelMaxOffset
        a0 == IF realigned THEN NoteStored(a, k, current_offset) ELSE a
        a1 == IF v.compared THEN NoteExcelCompared(a0, k, v.offset) ELSE a0
        new_offset == current_offset + 1
    IN  IF ExcelSkips(pred) THEN ExcelRun(a, rest, w)
        ELSE IF jumped /\ current_offset > ExcelMaxOffset
             THEN UpdateStatus(a, rest, w, k, "X")
        ELSE IF v.status # "none" THEN UpdateStatus(a1, rest, w1, k, v.status)
        ELSE IF v.should_continue /\ game_number = pred_numero + current_offset
             THEN IF StoresOffset(new_offset)
                  THEN ExcelRun(NoteStored(a1, k, new_offset), rest,
                                save_predictions(
                                    [w1 EXCEPT !.xp[k].current_offset = new_offset]))
                  ELSE UpdateStatus(a1, rest, w1, k, "X")
        ELSE ExcelRun(a1, rest, w1)

\* lines 829-830: the writes that follow the awaited edit_message
AfterExcelEdit(a, w, ok) ==
    IF ok THEN save_predictions([w EXCEPT !.xp[a.key].verified = TRUE,
                                          !.skip = {x \in @ : x[1] # a.key}])
    ELSE w

StartExcelRun(m) ==
    ExcelRun([Idle EXCEPT !.msg = m, !.pre = predictions], predictions_order, ExcelWorld)

ResumeExcelEdit(a, ok) ==
    ExcelRun(Resumed(a, ok), a.todo, AfterExcelEdit(a, ExcelWorld, ok))

ApplyExcel(i, res) ==
    /\ predictions' = res.w.xp
    /\ predictions_file' = res.w.file
    /\ acts' = [acts EXCEPT ![i] = IF res.act.pc = "done" THEN Idle ELSE res.act]
    /\ last' = IF res.act.pc = "done" THEN res.act.fx ELSE {}
    /\ skipped' = res.w.skip
    /\ UNCHANGED <<predictions_order, last_launched_numero, delivered,
                   compared, recompared, workbook>>
    /\ UNCHANGED liveVars

\* verify_excel_predictions(game_number, message_text), to its first await
ExcelMessage(i, m) == acts[i].pc = "idle" /\ ApplyExcel(i, StartExcelRun(m))

ExcelEditOk(i) == acts[i].pc = "xedit" /\ ApplyExcel(i, ResumeExcelEdit(acts[i], TRUE))

ExcelEditFails(i) == acts[i].pc = "xedit" /\ ApplyExcel(i, ResumeExcelEdit(acts[i], FALSE))

\* import_excel(file_path, replace_mode=True): the map is replaced and saved
import_excel(rows) ==
    LET imported == ImportRows(rows, EmptyMap, <<>>, 0)
    IN  /\ predictions' = imported.map
        /\ predictions_order' = imported.order
        /\ predictions_file' = imported.map
        /\ last' = {}
        /\ skipped' = {}
        /\ UNCHANGED <<last_launched_numero, acts, delivered, compared, recompared,
                       workbook>>
        /\ UNCHANGED liveVars

\* mark_as_launched(key, message_id, channel_id) with a delivered message
mark_as_launched(key) ==
    /\ key \in DOMAIN predictions
    /\ ~predictions[key].launched
    /\ predictions' = [predictions EXCEPT ![key].launched = TRUE,
                                          ![key].message_id = TRUE,
                                          ![key].channel_id = TRUE,
                                          ![key].current_offset = 0]
    /\ predictions_file' = predictions'
    /\ last_launched_numero' = predictions[key].numero
    /\ last' = {}
    /\ UNCHANGED <<predictions_order, acts, delivered, compared, recompared, skipped,
                   workbook>>
    /\ UNCHANGED liveVars

\* find_close_prediction, lines 159-177: its writes; a candidate of the
\* window equal to last_launched_numero + 1 is marked launched and skipped
SkippedAtLaunch(map, current_number) ==
    {k \in DOMAIN map :
        /\ ~map[k].launched
        /\ map[k].numero - current_number >= 0
        /\ map[k].numero - current_number <= Tolerance
        /\ last_launched_numero # 0
        /\ map[k].numero = last_launched_numero + 1}

find_close_prediction(current_number) ==
    /\ SkippedAtLaunch(predictions, current_number) # {}
    /\ predictions' = [k \in DOMAIN predictions |->
                          IF k \in SkippedAtLaunch(predictions, current_number)
                          THEN [predictions[k] EXCEPT !.launched = TRUE,
                                                      !.skipped_consecutive = TRUE]
                          ELSE predictions[k]]
    /\ predictions_file' = predictions'
    /\ last' = {}
    /\ UNCHANGED <<predictions_order, last_launched_numero, acts, delivered,
                   compared, recompared, skipped, workbook>>
    /\ UNCHANGED liveVars

ExcelMessageArrives == \E m \in ExcelMessages : AllIdle /\ ExcelMessage(1, m)
ExcelEditReturns == ExcelEditOk(1)
ExcelEditRaises == ExcelEditFails(1)
Import == \E rows \in ImportFiles : AllIdle /\ import_excel(rows)
Launch == \E key \in XNums : AllIdle /\ mark_as_launched(key)
FindClose == \E n \in Games : AllIdle /\ find_close_prediction(n)

NextExcel ==
    \/ ExcelMessageArrives
    \/ ExcelEditReturns
    \/ ExcelEditRaises
    \/ Import
    \/ Launch
    \/ FindClose

SpecExcel == Init /\ [][NextExcel]_vars

\* ------------------------------------------------- the import of one file
MaxSheet == 5
SheetNums == {0, 56, 57, 59, 60, 61}
Sheets == UNION {[1..n -> [numero : SheetNums, victoire : {"joueur"}]] : n \in 0..MaxSheet}

InitImport ==
    /\ workbook \in Sheets
    /\ active_predictions = EmptyMap
    /\ active_order = <<>>
    /\ r_offset = DefaultR
    /\ a_offset = DefaultA
    /\ config_file = [active_predictions |-> active_predictions,
                      active_order |-> active_order,
                      r_offset |-> r_offset, a_offset |-> a_offset]
    /\ predictions = EmptyMap
    /\ predictions_order = <<>>
    /\ last_launched_numero = 0
    /\ predictions_file = EmptyMap
    /\ acts = [i \in ActIds |-> Idle]
    /\ delivered = [k \in Keys |-> 0]
    /\ compared = {}
    /\ recompared = {}
    /\ skipped = {}
    /\ last = {}

\* import_excel(file_path) of the sheet
ImportWorkbook == import_excel(workbook)

SpecImport == InitImport /\ [][ImportWorkbook]_vars

\* ------------------------------------------------------- other behaviours
\* the two trackers share no state: behaviours that exercise one of them
LiveUntouched ==
    /\ active_predictions \in InitialMaps
    /\ r_offset = DefaultR /\ a_offset = DefaultA
    /\ \A k \in Keys : delivered[k] = 0
    /\ ~Editing(1) /\ acts[1].pc # "send"

ExcelUntouched ==
    /\ predictions = EmptyMap /\ predictions_order = <<>>
    /\ last_launched_numero = 0

NextEither ==
    \/ ExcelUntouched /\ Next
    \/ LiveUntouched /\ NextExcel

SpecEither == Init /\ [][NextEither]_vars

\* message handlers run as concurrent tasks: a second activation starts
\* while the first one is suspended at an await
ConcMessages ==
    {m \in LiveMessages : m.marks = {"check"} /\ m.pt \in {BanquierMax, JoueurMin}
                          /\ m.num <= 3}

ConcMessageArrives == \E m \in ConcMessages : NewMessage(1, m)
ConcSecondArrives == \E m \in ConcMessages : acts[1].pc # "idle" /\ NewMessage(2, m)
ConcEditReturns == \E i \in ActIds : EditOk(i)
ConcEditRaises == \E i \in ActIds : EditFails(i)
ConcSendReturns == \E i \in ActIds : SendOk(i)
ConcSendRaises == \E i \in ActIds : SendFails(i)

NextConc ==
    \/ ConcMessageArrives
    \/ ConcSecondArrives
    \/ ConcEditReturns
    \/ ConcEditRaises
    \/ ConcSendReturns
    \/ ConcSendRaises

SpecConc == Init /\ [][NextConc]_vars

\* the handlers with writes of the files that go through (TRUE) or raise
StartRunOn(m, disk) ==
    LiveStart([Idle EXCEPT !.msg = m, !.pre = active_predictions, !.pre_r = r_offset],
              [LiveWorld EXCEPT !.disk = disk])

ResumeEditOn(a, ok, disk) ==
    LiveRun(Resumed(a, ok), a.todo, AfterEdit(a, [LiveWorld EXCEPT !.disk = disk], ok))

ResumeSendOn(a, ok, disk) ==
    [w |-> AfterSend(a, [LiveWorld EXCEPT !.disk = disk], ok),
     act |-> [Resumed(a, ok) EXCEPT !.pc = "done"]]

StartExcelRunOn(m, disk) ==
    ExcelRun([Idle EXCEPT !.msg = m, !.pre = predictions], predictions_order,
             [ExcelWorld EXCEPT !.disk = disk])

ResumeExcelEditOn(a, ok, disk) ==
    ExcelRun(Resumed(a, ok), a.todo, AfterExcelEdit(a, [ExcelWorld EXCEPT !.disk = disk], ok))

DiskMessageArrives ==
    \E m \in LiveMessages, disk \in BOOLEAN :
        AllIdle /\ Admissible(m) /\ Apply(1, StartRunOn(m, disk))

DiskEditReturns == \E disk \in BOOLEAN : Editing(1) /\ Apply(1, ResumeEditOn(acts[1], TRUE, disk))
DiskEditRaises == \E disk \in BOOLEAN : Editing(1) /\ Apply(1, ResumeEditOn(acts[1], FALSE, disk))

DiskSendReturns ==
    \E disk \in BOOLEAN : acts[1].pc = "send" /\ Apply(1, ResumeSendOn(acts[1], TRUE, disk))

DiskSendRaises ==
    \E disk \in BOOLEAN : acts[1].pc = "send" /\ Apply(1, ResumeSendOn(acts[1], FALSE, disk))

\* finalized messages with a point: the ones that make the pass write
DiskExcelMessages ==
    {m \in ExcelMessages : m.marks = {"check"} /\ m.pt \in {BanquierMax, JoueurMin}}

DiskExcelMessageArrives ==
    \E m \in DiskExcelMessages, disk \in BOOLEAN :
        AllIdle /\ ApplyExcel(1, StartExcelRunOn(m, disk))

DiskExcelEditReturns ==
    \E disk \in BOOLEAN :
        acts[1].pc = "xedit" /\ ApplyExcel(1, ResumeExcelEditOn(acts[1], TRUE, disk))

DiskExcelEditRaises ==
    \E disk \in BOOLEAN :
        acts[1].pc = "xedit" /\ ApplyExcel(1, ResumeExcelEditOn(acts[1], FALSE, disk))

\* files of joueur rows
DiskImport ==
    \E rows \in {f \in ImportFiles : \A i \in DOMAIN f : f[i].victoire = "joueur"} :
        AllIdle /\ import_excel(rows)

NextDisk ==
    \/ ExcelUntouched /\ DiskMessageArrives
    \/ ExcelUntouched /\ DiskEditReturns
    \/ ExcelUntouched /\ DiskEditRaises
    \/ ExcelUntouched /\ DiskSendReturns
    \/ ExcelUntouched /\ DiskSendRaises
    \/ LiveUntouched /\ DiskExcelMessageArrives
    \/ LiveUntouched /\ DiskExcelEditReturns
    \/ LiveUntouched /\ DiskExcelEditRaises
    \/ LiveUntouched /\ DiskImport
    \/ LiveUntouched /\ Launch

SpecDisk == Init /\ [][NextDisk]_vars

\* load_config, lines 90-99: the JSON file is read into the globals
load_config ==
    /\ active_predictions' = config_file.active_predictions
    /\ active_order' = config_file.active_order
    /\ a_offset' = config_file.a_offset
    /\ r_offset' = config_file.r_offset
    /\ last' = {}
    /\ UNCHANGED <<config_file, acts, delivered, compared, recompared, skipped, workbook>>
    /\ UNCHANGED excelVars

\* /status and /sta: both reload the configuration before they answer
show_status == AllIdle /\ load_config
show_excel_stats == AllIdle /\ load_config

\* bound on the inputs: the stream holds at most MaxRecords triggering games,
\* counted by the deliveries since a reload can take records out of the map
RECURSIVE Deliveries(_)
Deliveries(keys) ==
    IF keys = {} THEN 0
    ELSE LET k == CHOOSE x \in keys : TRUE
         IN  delivered[k] + Deliveries(keys \ {k})

ReloadAdmissible(m) ==
    \/ Deliveries(Keys) + Cardinality(Sending) < MaxRecords
    \/ ~IsTrigger(m)
    \/ m.num + a_offset \in DOMAIN active_predictions

ReloadMessageArrives ==
    \E m \in LiveMessages, disk \in BOOLEAN :
        AllIdle /\ ReloadAdmissible(m) /\ Apply(1, StartRunOn(m, disk))

NextReload ==
    \/ ReloadMessageArrives
    \/ DiskEditReturns
    \/ DiskEditRaises
    \/ DiskSendReturns
    \/ DiskSendRaises
    \/ show_status
    \/ show_excel_stats

SpecReload == Init /\ [][NextReload]_vars

\* finalized messages with every point value of the first group
MaxPoint == 9
PointValues == 0..MaxPoint
ThresholdMessages == {Msg(n, {"check"}, p, s) : n \in Games, p \in PointValues, s \in Sigs}

ThresholdMessageArrives == \E m \in ThresholdMessages : AllIdle /\ NewMessage(1, m)

NextPoints ==
    \/ ThresholdMessageArrives
    \/ EditReturns
    \/ EditRaises
    \/ SendReturns
    \/ SendRaises

SpecPoints == Init /\ [][NextPoints]_vars

\* the same for the pass over the imported records
ExcelThresholdMessages ==
    {Msg(n, mk, p, SigPlain) : n \in Games, mk \in {{"check"}, {"alt"}}, p \in PointValues}

ExcelThresholdMessageArrives ==
    \E m \in ExcelThresholdMessages : AllIdle /\ ExcelMessage(1, m)

NextExcelPoints ==
    \/ ExcelThresholdMessageArrives
    \/ ExcelEditReturns
    \/ ExcelEditRaises
    \/ Import
    \/ Launch

SpecExcelPoints == Init /\ [][NextExcelPoints]_vars

\* messages with everything the trigger policy reads: the tie marker, the
\* 6-cards of each group, the #T metric (-2: no #T in the text, 21: #T10.5,
\* 22: #T11), a first-group total of 6 or not, finalized or not
NoT2 == -2
TriggerSigs ==
    [tie : BOOLEAN, six1 : 0..2, six2 : 0..1, ngroups : {2}, tval : {NoT2, TThreshold2, TThreshold2 + 1}]

TriggerMessages ==
    {Msg(n, mk, p, s) : n \in Games, mk \in {{}, {"check"}},
                        p \in {SkipTotal, JoueurMin}, s \in TriggerSigs}

TriggerMessageArrives == \E m \in TriggerMessages : AllIdle /\ NewMessage(1, m)

NextTrigger ==
    \/ TriggerMessageArrives
    \/ EditReturns
    \/ EditRaises
    \/ SendReturns
    \/ SendRaises
    \/ CommandA

SpecTrigger == Init /\ [][NextTrigger]_vars

\* ================================================================== claims
\* the claims' reading of "the point value satisfies the expected outcome"
Satisfies(expected, v) ==
    v # NoPoint /\ (IF expected = "joueur" THEN v >= JoueurMin ELSE v <= BanquierMax)

\* the runs of the live handler that the next step can end, one handler at a
\* time: the run for a new message that meets no await, or the rest of the
\* suspended run after the return or the exception of its await
NextRuns ==
    IF AllIdle THEN {StartRun(m) : m \in {x \in LiveMessages : Admissible(x)}}
    ELSE IF Editing(1) THEN {ResumeEdit(acts[1], ok) : ok \in BOOLEAN}
    ELSE IF acts[1].pc = "send" THEN {ResumeSend(acts[1], ok) : ok \in BOOLEAN}
    ELSE {}

EndingRuns == {e \in NextRuns : e.act.pc = "done"}

\* the same for the pass over the imported records
ExcelNextRuns ==
    IF AllIdle THEN {StartExcelRun(m) : m \in ExcelMessages}
    ELSE IF acts[1].pc = "xedit" THEN {ResumeExcelEdit(acts[1], ok) : ok \in BOOLEAN}
    ELSE {}

ExcelEndingRuns == {e \in ExcelNextRuns : e.act.pc = "done"}

\* an edit for record k raised during run e
EditRaisedFor(e, k) == \E f \in e.act.fx : f[2] = k /\ f[4] = FALSE

Pending0(rec) ==
    /\ ~rec.verified /\ rec.attempts = 0 /\ rec.status = "none"
    /\ rec.message_id /\ rec.channel_id

Hit0(m, rec, k) ==
    /\ is_finalized_message(m) /\ m.num = k
    /\ Pending0(rec) /\ Satisfies(rec.expected, m.pt)

\* C1: a pending record at offset 0 that receives a finalized message for its
\* own number whose point satisfies the expected outcome is SUCCESS at
\* offset 0 (status ok0, verified) when the handling of that message ends
\* with the edit delivered.
C1_SuccessAtOffset0 ==
    \A e \in EndingRuns : \A k \in DOMAIN e.act.pre :
        (Hit0(e.act.msg, e.act.pre[k], k) /\ ~EditRaisedFor(e, k))
        => e.w.ap[k].verified /\ e.w.ap[k].status = "ok0"

\* the step replaces the imported records by those of a file
ImportStep == \E rows \in ImportFiles : import_excel(rows)

\* C2: once a live or an imported record is verified, no step that handles a
\* message changes it: a live record keeps its status, its attempts and
\* verified, an imported record keeps its offset and verified; only the
\* import of a new file, which replaces the imported records, removes one.
C2_TerminalFinality ==
    [][ /\ \A k \in DOMAIN active_predictions :
             active_predictions[k].verified
             => /\ k \in DOMAIN active_predictions'
                /\ active_predictions'[k].verified
                /\ active_predictions'[k].status = active_predictions[k].status
                /\ active_predictions'[k].attempts = active_predictions[k].attempts
        /\ \A k \in DOMAIN predictions :
             predictions[k].verified
             => \/ /\ k \in DOMAIN predictions'
                   /\ predictions'[k].verified
                   /\ predictions'[k].current_offset = predictions[k].current_offset
                \/ ImportStep ]_vars

\* an imported record is verified and a later message has been handled with
\* effects on another imported record only
C2_Witness ==
    \E k \in DOMAIN predictions :
        /\ predictions[k].verified
        /\ \E f \in last : f[2] > k
        /\ \A f \in last : f[2] # k

\* the same for a live record
C2_WitnessLive ==
    \E k \in DOMAIN active_predictions :
        /\ active_predictions[k].verified
        /\ \E f \in last : f[2] > k
        /\ \A f \in last : f[2] # k

\* C3: the stored attempts of a live record never decrease, and no offset of
\* a record is compared against a point value twice.
C3_AttemptsMonotone ==
    [][ /\ \A k \in DOMAIN active_predictions :
             active_predictions'[k].attempts >= active_predictions[k].attempts
        /\ recompared' = {} ]_vars

\* C4: one handler at a time, a trigger for a predicted number that is
\* already in the record map creates nothing: the record of that number is
\* left as it is and no deliver effect is emitted for it.
C4_IdempotentTrigger ==
    [][ /\ \A k \in DOMAIN active_predictions :
             /\ k \in DOMAIN active_predictions'
             /\ delivered'[k] = delivered[k]
             /\ acts[1].pc = "send" => active_predictions'[k] = active_predictions[k]
        /\ \A f \in last' :
             f[1] = "duplicate" =>
                /\ f[2] \in DOMAIN active_predictions
                /\ active_predictions'[f[2]] = active_predictions[f[2]] ]_vars

\* a trigger for an existing number has just been handled and ignored
C4_Witness ==
    \E f \in last : /\ f[1] = "duplicate"
                    /\ delivered[f[2]] = 1
                    /\ f[2] \in DOMAIN active_predictions

\* C5: at most one deliver effect is emitted per predicted number, also when
\* two activations of the handler interleave at the await of the deliver.
C5_OneDeliverPerNumero == \A k \in Keys : delivered[k] <= 1

Overflow(m, rec, k, r) ==
    is_finalized_message(m) /\ ~rec.verified /\ m.num > k + r

\* C6: a non-verified live record that observes a finalized message beyond
\* predicted number + max_offset is FAILURE and verified when the handling of
\* that message ends, whatever the point value, with or without a message
\* reference, whether the edit is delivered or raises.
C6_ForcedFailure ==
    \A e \in EndingRuns : \A k \in DOMAIN e.act.pre :
        Overflow(e.act.msg, e.act.pre[k], k, e.act.pre_r)
        => e.w.ap[k].verified /\ e.w.ap[k].status = "X"

\* a forced failure has happened without a message reference, and another
\* one with an edit that raised
C6_Witness ==
    /\ \E k \in DOMAIN active_predictions :
          /\ ~active_predictions[k].message_id
          /\ active_predictions[k].verified /\ active_predictions[k].status = "X"
    /\ \E f \in last :
          /\ f[1] = "edit_expired" /\ f[4] = FALSE
          /\ active_predictions[f[2]].verified /\ active_predictions[f[2]].status = "X"

Decisive(m, rec, k, r) ==
    /\ is_finalized_message(m) /\ ~rec.verified
    /\ rec.message_id /\ rec.channel_id
    /\ m.num - k > rec.attempts /\ m.num - k <= r
    /\ m.pt # NoPoint
    /\ (Satisfies(rec.expected, m.pt) \/ m.num - k >= r)

\* C7: when the evaluation of a live record decides a terminal outcome
\* (success at the current offset, or failure on the last allowed attempt),
\* the record is verified with that status when the handling of the message
\* ends, also when the edit raises.
C7_EditFailureKeepsTransition ==
    \A e \in EndingRuns : \A k \in DOMAIN e.act.pre :
        Decisive(e.act.msg, e.act.pre[k], k, e.act.pre_r)
        => /\ e.w.ap[k].verified
           /\ e.w.ap[k].status = IF Satisfies(e.act.pre[k].expected, e.act.msg.pt)
                                 THEN StatusEmoji(e.act.msg.num - k) ELSE "X"

InEditAtTarget(m, rec) ==
    /\ rec.launched /\ ~rec.verified
    /\ "clock" \in m.marks
    /\ m.num = rec.numero + rec.current_offset

\* C8: a launched, non-verified imported record whose target number arrives
\* in a message that still carries the in-edit marker is left as it is by the
\* handling of that message: same offset, not verified, no point compared
\* and no edit emitted for it.
C8_InEditWaits ==
    \A e \in ExcelEndingRuns : \A k \in DOMAIN e.act.pre :
        InEditAtTarget(e.act.msg, e.act.pre[k])
        => /\ e.w.xp[k].current_offset = e.act.pre[k].current_offset
           /\ ~e.w.xp[k].verified
           /\ \A f \in e.act.fx : f[2] # k

GapFromZero(m, rec) ==
    /\ rec.launched /\ ~rec.verified
    /\ rec.current_offset = 0
    /\ m.num >= rec.numero + ExcelMaxOffset + 1

\* C9: a launched imported record at offset 0 that observes a message of a
\* number >= its own + 3 is verified (FAILURE) when the handling of that
\* message ends, and no point value is compared for it.
C9_GapSkipFails ==
    \A e \in ExcelEndingRuns : \A k \in DOMAIN e.act.pre :
        GapFromZero(e.act.msg, e.act.pre[k])
        => /\ e.w.xp[k].verified
           /\ \A f \in e.act.fx : ~(f[1] = "compare" /\ f[2] = k)

Realigns(m, rec) ==
    /\ rec.launched /\ ~rec.verified
    /\ m.num > rec.numero + rec.current_offset
    /\ m.num <= rec.numero + ExcelMaxOffset

\* the message carries what the evaluation at an offset reads
Evaluable(m) ==
    /\ "clock" \notin m.marks
    /\ "check" \in m.marks \/ "alt" \in m.marks
    /\ extract_points_and_winner(m) # NoPoint

\* C10: a launched imported record at stored offset o that observes a message
\* of number G with P + o < G <= P + 2 has its offset stored as G - P and an
\* evaluable message has its point compared at offset G - P; and no handling
\* of a message, this one or a later one, compares a point at an offset that
\* a realignment of the record has passed over.
C10_GapRealigns ==
    \A e \in ExcelEndingRuns : \A k \in DOMAIN e.act.pre :
        /\ Realigns(e.act.msg, e.act.pre[k])
             => LET d == e.act.msg.num - e.act.pre[k].numero
                IN  /\ <<"store", k, OffsetName(d), TRUE>> \in e.act.fx
                    /\ Evaluable(e.act.msg)
                         => <<"compare", k, OffsetName(d), TRUE>> \in e.act.fx
        /\ \A f \in e.act.fx :
             (f[1] = "compare" /\ f[2] = k) => <<k, f[3]>> \notin e.w.skip

\* the handling of the realigning message alone: the offset is stored as
\* G - P, no point is compared at another offset, an evaluable message is
\* compared at G - P, and the offset ends at G - P or one further
C10_WithinTheHandling ==
    \A e \in ExcelEndingRuns : \A k \in DOMAIN e.act.pre :
        Realigns(e.act.msg, e.act.pre[k])
        => LET d == e.act.msg.num - e.act.pre[k].numero
           IN  /\ <<"store", k, OffsetName(d), TRUE>> \in e.act.fx
               /\ \A f \in e.act.fx :
                    (f[1] = "compare" /\ f[2] = k) => f[3] = OffsetName(d)
               /\ Evaluable(e.act.msg)
                    => <<"compare", k, OffsetName(d), TRUE>> \in e.act.fx
               /\ e.w.xp[k].current_offset \in {d, d + 1}

\* a record was moved from offset 0 to offset 2 by one message and its point
\* was compared there
C10_Witness ==
    \E k \in DOMAIN predictions :
        /\ <<"store", k, OffsetName(ExcelMaxOffset), TRUE>> \in last
        /\ <<"compare", k, OffsetName(ExcelMaxOffset), TRUE>> \in last
        /\ <<"store", k, OffsetName(1), TRUE>> \notin last
        /\ <<"compare", k, OffsetName(1), TRUE>> \notin last

\* the numeros of the rows of the sheet that have all their cells
Scanned(rows) == SelectSeq([i \in 1..Len(rows) |-> rows[i].numero], LAMBDA n : n # 0)

\* position i of the scanned identifiers is retained when the nearest retained
\* position before it does not hold its value minus one
RECURSIVE Retained(_, _)
Retained(ids, i) ==
    \A j \in 1..(i - 1) :
        (Retained(ids, j) /\ \A l \in (j + 1)..(i - 1) : ~Retained(ids, l))
        => ids[i] # ids[j] + 1

RetainedSeq(ids) ==
    LET F[i \in 0..Len(ids)] ==
            IF i = 0 THEN <<>>
            ELSE IF Retained(ids, i) THEN Append(F[i - 1], ids[i]) ELSE F[i - 1]
    IN  F[Len(ids)]

\* C11: the import scans the identifiers in order, drops the one equal to the
\* last retained identifier plus one without making it the reference, and
\* retains every other one: the records are those of the retained identifiers
\* (56, 59 and 61 for 56, 57, 59, 60, 61), saved as such, and in the
\* retained sequence no element is its predecessor plus one.
C11_ConsecutiveDroppedAtImport ==
    (predictions # EmptyMap) =>
        LET kept == RetainedSeq(Scanned(workbook))
        IN  /\ DOMAIN predictions = {kept[i] : i \in 1..Len(kept)}
            /\ \A k \in DOMAIN predictions : predictions[k].numero = k
            /\ predictions_file = predictions
            /\ \A i \in 2..Len(kept) : kept[i] # kept[i - 1] + 1
            /\ Scanned(workbook) = <<56, 57, 59, 60, 61>>
                 => DOMAIN predictions = {56, 59, 61}

\* the sheet 56, 57, 59, 60, 61 has been imported
C11_Witness ==
    /\ Scanned(workbook) = <<56, 57, 59, 60, 61>>
    /\ Len(workbook) = 5
    /\ DOMAIN predictions = {56, 59, 61}
    /\ predictions_order = <<56, 59, 61>>

\* C12: a candidate of the activation search equal to the last launched
\* number plus one is consumed without being activated: it stays launched, so
\* that no later search returns it, and the verification pass never takes it
\* as an in-flight record: the handling of a message leaves it as it is,
\* compares no point and stores no offset for it.
C12_ConsecutiveNeverInFlight ==
    /\ \A k \in DOMAIN predictions :
          predictions[k].skipped_consecutive => predictions[k].launched
    /\ \A e \in ExcelEndingRuns : \A k \in DOMAIN e.act.pre :
          e.act.pre[k].skipped_consecutive
          => /\ e.w.xp[k] = e.act.pre[k]
             /\ \A f \in e.act.fx : f[2] # k

\* a record suppressed by the activation search has been evaluated by the
\* handling of a message
C12_Witness ==
    \E k \in DOMAIN predictions :
        /\ predictions[k].skipped_consecutive
        /\ \E f \in last : f[2] = k

\* the runs of the live handler that the next step can make, to their next
\* await or to their end, for the messages of every point value
PointRuns ==
    IF AllIdle THEN {StartRun(m) : m \in {x \in ThresholdMessages : Admissible(x)}}
    ELSE IF Editing(1) THEN {ResumeEdit(acts[1], ok) : ok \in BOOLEAN}
    ELSE {}

\* record k is compared with the point of the message in run e
ComparedIn(e, k) ==
    \E off \in 0..MaxGame :
        \/ <<"live", k, off>> \in e.w.cmp \ compared
        \/ <<"live", k, off>> \in e.w.recmp \ recompared

\* run e goes to the success edit of record k
SucceedsIn(e, k) == e.act.pc = "edit_success" /\ e.act.key = k

\* C13: when the live tracker compares the point value v of a message for a
\* record, a joueur record succeeds iff v >= 7 and a banquier record succeeds
\* iff v <= 4; 5 and 6 fail for both.
C13_LiveThresholds ==
    \A e \in PointRuns : \A k \in DOMAIN active_predictions :
        ComparedIn(e, k) =>
            LET v == e.act.msg.pt
                expected == active_predictions[k].expected
            IN  /\ expected = "joueur" => (SucceedsIn(e, k) <=> v >= 7)
                /\ expected = "banquier" => (SucceedsIn(e, k) <=> v <= 4)
                /\ v \in {5, 6} => ~SucceedsIn(e, k)

\* a joueur record is at its success edit for a point of 7 while a banquier
\* record has been resolved as a success
C13_Witness ==
    /\ acts[1].pc = "edit_success" /\ acts[1].msg.pt = 7
    /\ active_predictions[acts[1].key].expected = "joueur"
    /\ \E k \in DOMAIN active_predictions :
          /\ active_predictions[k].expected = "banquier"
          /\ active_predictions[k].verified
          /\ active_predictions[k].status \notin {"none", "X"}

\* the runs of the pass over the imported records that the next step can
\* make, to their next await or to their end, for every point value
ExcelPointRuns ==
    IF AllIdle THEN {StartExcelRun(m) : m \in ExcelThresholdMessages}
    ELSE IF acts[1].pc = "xedit" THEN {ResumeExcelEdit(acts[1], ok) : ok \in BOOLEAN}
    ELSE {}

\* record k is compared with the point of the message in run e
ExcelComparedIn(e, k) ==
    \E f \in e.act.fx \ acts[1].fx : f[1] = "compare" /\ f[2] = k

\* run e goes to the edit of record k with a success status
ExcelSucceedsIn(e, k) ==
    e.act.pc = "xedit" /\ e.act.key = k /\ e.act.emoji \in {"ok0", "ok1", "ok2"}

\* C14: when the pass over the imported records compares the point value v
\* of a finalized target message for an activated record, a joueur record
\* succeeds iff v >= 7 and a banquier record succeeds iff v <= 4; 5 and 6 fail
\* for both.
C14_ExcelThresholds ==
    \A e \in ExcelPointRuns : \A k \in DOMAIN predictions :
        (ExcelComparedIn(e, k) /\ predictions[k].message_id) =>
            LET v == e.act.msg.pt
                expected == predictions[k].victoire
            IN  /\ expected = "joueur" => (ExcelSucceedsIn(e, k) <=> v >= 7)
                /\ expected = "banquier" => (ExcelSucceedsIn(e, k) <=> v <= 4)
                /\ v \in {5, 6} => ~ExcelSucceedsIn(e, k)

\* a banquier record is at its success edit for a point of 4 while a joueur
\* record has been resolved
C14_Witness ==
    /\ acts[1].pc = "xedit" /\ acts[1].msg.pt = 4 /\ acts[1].emoji \in {"ok0", "ok1", "ok2"}
    /\ predictions[acts[1].key].victoire = "banquier"
    /\ \E k \in DOMAIN predictions :
          predictions[k].victoire = "joueur" /\ predictions[k].verified

\* the runs of the live handler that the next step can make, to their next
\* await or to their end, for the messages of the trigger policy
TriggerRuns(Of(_)) ==
    IF AllIdle THEN {StartRun(m) : m \in {x \in TriggerMessages : Admissible(x) /\ Of(x)}}
    ELSE IF ~Of(acts[1].msg) THEN {}
    ELSE IF Editing(1) THEN {ResumeEdit(acts[1], ok) : ok \in BOOLEAN}
    ELSE IF acts[1].pc = "send" THEN {ResumeSend(acts[1], ok) : ok \in BOOLEAN}
    ELSE {}

\* C15: the handling of a message that contains the tie marker registers no
\* live record and never comes to the deliver, whatever its card groups, its
\* metric and its finalization marker are.
C15_TieSuppression ==
    /\ is_tie_game(acts[1].msg) => acts[1].pc # "send"
    /\ \A e \in TriggerRuns(is_tie_game) :
          /\ e.act.pc # "send"
          /\ DOMAIN e.w.ap = DOMAIN active_predictions
          /\ e.w.dl = delivered

\* a finalized tie message with a 6 in its first group and a metric has been
\* handled, and nothing is registered or delivered
C15_Witness ==
    /\ <<"tie", 0, "signal", TRUE>> \in last
    /\ active_predictions = EmptyMap
    /\ \A k \in Keys : delivered[k] = 0

\* C16: a trigger from a message of number G and metric m comes to the
\* deliver for the predicted number G + a_offset, and the record registered
\* when the deliver returns is keyed by that number, expects joueur iff
\* m > 10.5 and banquier otherwise (also for m = 10.5), is not verified and
\* has no attempt consumed.
C16_RegisteredRecord ==
    acts[1].pc = "send" =>
        LET G == acts[1].msg.num
            m2 == acts[1].msg.tval
            k == G + a_offset
            e == ResumeSend(acts[1], TRUE)
        IN  /\ acts[1].key = k
            /\ DOMAIN e.w.ap = DOMAIN active_predictions \cup {k}
            /\ e.w.ap[k].expected = (IF m2 > 21 THEN "joueur" ELSE "banquier")
            /\ m2 = 21 => e.w.ap[k].expected = "banquier"
            /\ ~e.w.ap[k].verified
            /\ e.w.ap[k].attempts = 0
            /\ e.w.ap[k].status = "none"
            /\ e.w.file.active_predictions = e.w.ap

\* with a_offset = 2, a record has just been registered for a metric of 10.5
C16_Witness ==
    /\ a_offset = 2
    /\ \E f \in last :
          /\ f[1] = "send" /\ f[4]
          /\ f[2] \in DOMAIN active_predictions
          /\ active_predictions[f[2]].expected = "banquier"
          /\ ~active_predictions[f[2]].verified
          /\ active_predictions[f[2]].attempts = 0

AnyMessage(m) == TRUE

\* the conditions of the trigger as the claim lists them, for message m and
\* the record map at its arrival
TriggerConditions(m, map) ==
    /\ "check" \in m.marks \/ "alt" \in m.marks
    /\ ~m.tie
    /\ m.six1 + m.six2 < 2
    /\ ~(m.pt = 6 /\ m.six1 >= 1)
    /\ m.six1 >= 1
    /\ m.tval # NoT2
    /\ m.num + a_offset \notin DOMAIN map

\* C17: the handling of a message registers a new live record iff the message
\* is finalized, has no tie marker, has fewer than two 6-cards, does not have
\* a first-group total of 6 with a 6 in the first group, has a 6 in the first
\* group, carries a metric, and its predicted number is not registered yet;
\* otherwise no key is added and nothing is delivered.
C17_TriggerDecision ==
    \A e \in TriggerRuns(AnyMessage) :
        e.act.pc = "done" =>
            LET holds == TriggerConditions(e.act.msg, e.act.pre)
            IN  /\ holds <=> DOMAIN e.w.ap # DOMAIN e.act.pre
                /\ ~holds => e.w.dl = delivered

\* the decision alone: the handling comes to the deliver iff the conditions
\* hold, a handling that ends without it adds no key and delivers nothing,
\* and the deliver that returns registers the predicted number
C17_DecisionComesToDeliver ==
    /\ acts[1].pc = "send" =>
          /\ TriggerConditions(acts[1].msg, acts[1].pre)
          /\ DOMAIN ResumeSend(acts[1], TRUE).w.ap
                = DOMAIN acts[1].pre \cup {acts[1].msg.num + a_offset}
    /\ acts[1].pc # "send" =>
          \A e \in TriggerRuns(AnyMessage) :
              /\ e.act.pc = "send" => TriggerConditions(e.act.msg, e.act.pre)
              /\ e.act.pc = "done" =>
                    /\ ~TriggerConditions(e.act.msg, e.act.pre)
                    /\ DOMAIN e.w.ap = DOMAIN e.act.pre
                    /\ e.w.dl = delivered

\* the deliver of a trigger has raised and its number is not registered
C17_Witness ==
    \E f \in last :
        /\ f[1] = "send" /\ ~f[4]
        /\ f[2] \notin DOMAIN active_predictions

NotFinalized(m) == "check" \notin m.marks /\ "alt" \notin m.marks

\* C18: the handling of a message without a finalization marker ends without
\* an await, triggers nothing and leaves every live record as it is
\* (attempts, status, verified), whatever the number of the message.
C18_NonFinalizedChangesNothing ==
    /\ acts[1].pc # "idle" => ~NotFinalized(acts[1].msg)
    /\ \A e \in TriggerRuns(NotFinalized) :
          /\ e.act.pc = "done"
          /\ e.w.ap = active_predictions
          /\ e.w.order = active_order
          /\ e.w.dl = delivered
          /\ e.w.file = config_file

\* a non-finalized message has just been handled while a record with a
\* message reference is waiting for its result
C18_Witness ==
    /\ <<"waiting", 0, "none", TRUE>> \in last
    /\ \E k \in DOMAIN active_predictions :
          /\ ~active_predictions[k].verified
          /\ active_predictions[k].message_id
          /\ active_predictions[k].attempts = 1

\* C19: a /r command with a value outside 0..10 leaves r_offset and the saved
\* configuration as they are, and r_offset, 2 at the start, is in 0..10
\* after any sequence of /r commands, as is the saved value.
C19_RejectedOutOfRange ==
    /\ [](r_offset \in 0..10 /\ config_file.r_offset \in 0..10)
    /\ [][ \A v \in RVals :
             (v \notin 0..10 /\ set_r_offset(v))
             => r_offset' = r_offset /\ config_file' = config_file ]_vars

\* /r 11 has just been answered as invalid after /r 3 had been accepted
C19_Witness ==
    /\ <<"invalid", 0, "none", TRUE>> \in last
    /\ r_offset = 3
    /\ config_file.r_offset = 3

\* run f, whose writes of the file raise, is in memory the run e whose
\* writes go through: same records, same effects, same comparisons, same
\* position of the handler; and it leaves the file as it was
SameLiveRun(e, f) ==
    /\ f.w.ap = e.w.ap /\ f.w.order = e.w.order
    /\ f.w.cmp = e.w.cmp /\ f.w.recmp = e.w.recmp /\ f.w.dl = e.w.dl
    /\ f.act = e.act
    /\ f.w.file = config_file

SameExcelRun(e, f) ==
    /\ f.w.xp = e.w.xp /\ f.w.skip = e.w.skip
    /\ f.act = e.act
    /\ f.w.file = predictions_file

\* C20: a write of the file that raises while a message is handled changes
\* nothing to what the handler does in memory: status, verified, attempts
\* and offsets are written as when the write goes through, no offset is
\* compared again, and the handler goes on with the remaining records, from
\* the arrival of a message and from every awaited edit or deliver.
C20_SaveFailureKeepsTransition ==
    /\ AllIdle =>
          /\ \A m \in {x \in LiveMessages : Admissible(x)} :
                SameLiveRun(StartRunOn(m, TRUE), StartRunOn(m, FALSE))
          /\ \A m \in DiskExcelMessages :
                SameExcelRun(StartExcelRunOn(m, TRUE), StartExcelRunOn(m, FALSE))
    /\ Editing(1) =>
          \A ok \in BOOLEAN :
              SameLiveRun(ResumeEditOn(acts[1], ok, TRUE), ResumeEditOn(acts[1], ok, FALSE))
    /\ acts[1].pc = "send" =>
          \A ok \in BOOLEAN :
              SameLiveRun(ResumeSendOn(acts[1], ok, TRUE), ResumeSendOn(acts[1], ok, FALSE))
    /\ acts[1].pc = "xedit" =>
          \A ok \in BOOLEAN :
              SameExcelRun(ResumeExcelEditOn(acts[1], ok, TRUE),
                           ResumeExcelEditOn(acts[1], ok, FALSE))

\* a live record has been resolved in memory by a handling whose write of
\* the file raised, and a later message has been handled
C20_Witness ==
    /\ AllIdle
    /\ \E k \in DOMAIN active_predictions :
          /\ active_predictions[k].verified
          /\ active_predictions[k].status # "none"
          /\ k \in DOMAIN config_file.active_predictions
          /\ ~config_file.active_predictions[k].verified
          /\ \A f \in last : f[2] # k
          /\ \E f \in last : f[2] > k

\* the same for an imported record
C20_WitnessExcel ==
    /\ AllIdle
    /\ \E k \in DOMAIN predictions :
          /\ predictions[k].verified
          /\ k \in DOMAIN predictions_file
          /\ ~predictions_file[k].verified

\* C21: the records in memory are authoritative: no step of the program,
\* the /status and /sta commands included, puts the live record map back to
\* an older saved snapshot: every record stays in the map, a verified record
\* stays verified with its status, and no command changes a record.
C21_MemoryAuthoritative ==
    [][ /\ \A k \in DOMAIN active_predictions :
             /\ k \in DOMAIN active_predictions'
             /\ active_predictions[k].verified
                  => /\ active_predictions'[k].verified
                     /\ active_predictions'[k].status = active_predictions[k].status
        /\ (show_status \/ show_excel_stats) => active_predictions' = active_predictions
      ]_vars

\* a record that was delivered and registered while the write of the file
\* raised is no longer in the map after a command
C21_Witness ==
    /\ AllIdle
    /\ \E k \in Keys : delivered[k] = 1 /\ k \notin DOMAIN active_predictions

\* a finalized message at a new offset of a pending record with a message
\* reference
NewOffset(m, rec, k, r) ==
    /\ is_finalized_message(m) /\ ~rec.verified
    /\ rec.message_id /\ rec.channel_id
    /\ m.num - k > rec.attempts /\ m.num - k <= r

\* the pass over record k alone, for message m, compares the point at the
\* offset of m
ComparesAlone(m, k) ==
    <<"live", k, m.num - k>>
        \in LiveRun([Idle EXCEPT !.msg = m], <<k>>, [LiveWorld EXCEPT !.cmp = {}]).w.cmp

\* C22: when a finalized message at a new offset of a live record carries no
\* readable point, the handling of the message leaves the record as it is
\* (pending, same attempts) with no edit for it, and a message of the same
\* number that carries a point is then compared at that offset.
C22_LiveParseMiss ==
    /\ \A e \in EndingRuns : \A k \in DOMAIN e.act.pre :
          (NewOffset(e.act.msg, e.act.pre[k], k, e.act.pre_r) /\ e.act.msg.pt = NoPoint)
          => /\ e.w.ap[k] = e.act.pre[k]
             /\ \A f \in e.act.fx : f[2] = k => f[1] = "nopoint"
    /\ AllIdle =>
          \A k \in DOMAIN active_predictions : \A m \in LiveMessages :
              (NewOffset(m, active_predictions[k], k, r_offset) /\ m.pt # NoPoint)
              => ComparesAlone(m, k)

\* a message without a point has been handled at offset 1 of a record that
\* is still pending with no attempt consumed
C22_Witness ==
    \E f \in last :
        /\ f[1] = "nopoint"
        /\ ~active_predictions[f[2]].verified
        /\ active_predictions[f[2]].attempts = 0
        /\ active_predictions[f[2]].status = "none"


FinalizedAtTarget(m, rec) ==
    /\ rec.launched /\ ~rec.verified
    /\ "clock" \notin m.marks
    /\ "check" \in m.marks \/ "alt" \in m.marks
    /\ m.num = rec.numero + rec.current_offset

\* C23: a launched, non-verified imported record whose target number arrives
\* in a finalized message from which no point can be extracted is left as it
\* is by the handling of that message: not verified, same offset, and no
\* effect (no stored offset, no status edit) for it.
C23_ExcelParseMiss ==
    \A e \in ExcelEndingRuns : \A k \in DOMAIN e.act.pre :
        (FinalizedAtTarget(e.act.msg, e.act.pre[k])
            /\ extract_points_and_winner(e.act.msg) = NoPoint)
        => /\ e.w.xp[k] = e.act.pre[k]
           /\ \A f \in e.act.fx : f[2] # k


\* ------------------------------------------- record map read from the file
\* start_bot: load_config reads whatever keys bot_config.json holds
WellFormed == [k \in {2} |-> NewRecord("joueur")]

OnlyMalformed == [k \in {NotANumber} |-> NewRecord("banquier")]

LoadedMaps ==
    {<<WellFormed, <<2>>>>,
     <<OnlyMalformed, <<NotANumber>>>>,
     <<Put(WellFormed, NotANumber, NewRecord("banquier")), <<NotANumber, 2>>>>,
     <<Put(WellFormed, NotANumber, NewRecord("banquier")), <<2, NotANumber>>>>}

InitLoaded ==
    /\ \E f \in LoadedMaps : active_predictions = f[1] /\ active_order = f[2]
    /\ r_offset = DefaultR
    /\ a_offset = DefaultA
    /\ config_file = [active_predictions |-> active_predictions,
                      active_order |-> active_order,
                      r_offset |-> r_offset, a_offset |-> a_offset]
    /\ predictions = EmptyMap
    /\ predictions_order = <<>>
    /\ last_launched_numero = 0
    /\ predictions_file = EmptyMap
    /\ acts = [i \in ActIds |-> Idle]
    /\ delivered = [k \in Keys |-> 0]
    /\ compared = {}
    /\ recompared = {}
    /\ skipped = {}
    /\ workbook = <<>>
    /\ last = {}

\* bound on the inputs, counted on the records with a numeric key
LoadedAdmissible(m) ==
    \/ Cardinality(DOMAIN active_predictions \ {NotANumber}) + Cardinality(Sending)
         < MaxRecords
    \/ ~IsTrigger(m)
    \/ m.num + a_offset \in DOMAIN active_predictions

LoadedMessageArrives ==
    \E m \in LiveMessages : AllIdle /\ LoadedAdmissible(m) /\ Apply(1, StartRun(m))

NextLoaded ==
    \/ LoadedMessageArrives
    \/ EditReturns
    \/ EditRaises
    \/ SendReturns
    \/ SendRaises

SpecLoaded == InitLoaded /\ [][NextLoaded]_vars

Malformed(k, rec) == k = NotANumber \/ ~(rec.message_id /\ rec.channel_id)

RECURSIVE WithoutMalformed(_)
WithoutMalformed(order) ==
    IF order = <<>> THEN <<>>
    ELSE IF Malformed(Head(order), active_predictions[Head(order)])
         THEN WithoutMalformed(Tail(order))
         ELSE <<Head(order)>> \o WithoutMalformed(Tail(order))

\* the handling of m by a pass that steps over the malformed records
CleanRun(m) ==
    LiveStart([Idle EXCEPT !.msg = m],
              [LiveWorld EXCEPT !.order = WithoutMalformed(active_order)])

\* C24: the handling of a message over a record map that holds malformed
\* records (a key that is not a number, a record without message reference)
\* raises no exception, and up to its first await it does to every other
\* record, and goes to the same await or trigger step, as a pass over the
\* other records alone would.
C24_RecordIsolation ==
    AllIdle => \A m \in LiveMessages :
        /\ <<"raised", 0, "none", FALSE>> \notin StartRun(m).act.fx
        /\ \A k \in DOMAIN active_predictions :
              ~Malformed(k, active_predictions[k])
              => StartRun(m).w.ap[k] = CleanRun(m).w.ap[k]
        /\ StartRun(m).act.pc = CleanRun(m).act.pc
        /\ StartRun(m).act.key = CleanRun(m).act.key

\* the handling of a message has been ended by the exception
C24_Witness == <<"raised", 0, "none", FALSE>> \in last


\* ------------------------------- the message stream with imported records
\* finalized messages with a point, with and without the trigger's six
StreamMessages ==
    {Msg(n, {"check"}, JoueurMin, sig) : n \in Games, sig \in {SigPlain, SigHigh}}

\* handle_new_message is the only handler of the source channel
StreamMessageArrives == \E m \in StreamMessages : AllIdle /\ NewMessage(1, m)

NextStream ==
    \/ StreamMessageArrives
    \/ EditReturns
    \/ EditRaises
    \/ SendReturns
    \/ SendRaises
    \/ DiskImport
    \/ Launch

SpecStream == Init /\ [][NextStream]_vars

\* C25: a message handled by handle_new_message up to the trigger step or
\* to its return has by then been run through the pass over the imported
\* records: the records are what that pass makes of them for this message,
\* and the pass is not waiting for a status edit.
C25_BothPassesPerMessage ==
    [][ \A m \in StreamMessages :
          (AllIdle /\ NewMessage(1, m) /\ acts'[1].pc \in {"idle", "send"})
          => /\ predictions' = StartExcelRun(m).w.xp
             /\ StartExcelRun(m).act.pc # "xedit"
      ]_vars

\* a launched imported record is open while the live handler has delivered
\* a prediction from the stream
C25_Witness ==
    /\ \E k \in DOMAIN predictions : predictions[k].launched /\ ~predictions[k].verified
    /\ \E k \in Keys : delivered[k] = 1
    /\ AllIdle


\* C26: when no handler is suspended (every message has been handled to its
\* end), the record map of bot_config.json is the record map in memory.
C26_PersistedAfterEveryMessage ==
    AllIdle => config_file.active_predictions = active_predictions

\* a handling that compared a point and wrote attempts has ended
C26_Witness ==
    /\ AllIdle
    /\ \E f \in last : f[1] \in {"edit_success", "edit_failure"}
    /\ \E k \in DOMAIN active_predictions : active_predictions[k].attempts > 0


\* ------------------------------------------- the operations on the records
\* /excel_clear: the imported records are cleared and the empty map saved
clear_excel_predictions ==
    /\ predictions' = EmptyMap
    /\ predictions_order' = <<>>
    /\ predictions_file' = EmptyMap
    /\ last' = {}
    /\ skipped' = {}
    /\ UNCHANGED <<last_launched_numero, acts, delivered, compared, recompared,
                   workbook>>
    /\ UNCHANGED liveVars

Clear == AllIdle /\ clear_excel_predictions

RecordsExcelMessageArrives == \E m \in DiskExcelMessages : AllIdle /\ ExcelMessage(1, m)

NextRecords ==
    \/ ExcelUntouched /\ MessageArrives
    \/ ExcelUntouched /\ EditReturns
    \/ ExcelUntouched /\ EditRaises
    \/ ExcelUntouched /\ SendReturns
    \/ ExcelUntouched /\ SendRaises
    \/ ExcelUntouched /\ show_status
    \/ LiveUntouched /\ RecordsExcelMessageArrives
    \/ LiveUntouched /\ ExcelEditReturns
    \/ LiveUntouched /\ ExcelEditRaises
    \/ LiveUntouched /\ DiskImport
    \/ LiveUntouched /\ Launch
    \/ LiveUntouched /\ Clear

SpecRecords == Init /\ [][NextRecords]_vars

BelowStored(m, rec) ==
    /\ rec.launched /\ ~rec.verified
    /\ m.num < rec.numero + rec.current_offset

\* C28: the stored offset of a launched imported record never decreases; and
\* a message whose number is below the record's number plus its stored
\* offset is not evaluated for it: its handling compares no point for the
\* record (so none is compared a second time at an offset already left),
\* leaves the record as it is and asks for no status edit of it.
C28_OffsetMonotonic ==
    /\ [](AllIdle => \A m \in ExcelMessages : \A k \in DOMAIN predictions :
             BelowStored(m, predictions[k])
             => /\ \A f \in StartExcelRun(m).act.fx : ~(f[1] = "compare" /\ f[2] = k)
                /\ StartExcelRun(m).w.xp[k] = predictions[k]
                /\ ~(StartExcelRun(m).act.pc = "xedit" /\ StartExcelRun(m).act.key = k))
    /\ [][\A k \in DOMAIN predictions \cap DOMAIN predictions' :
             (predictions[k].launched /\ predictions'[k].launched)
             => predictions'[k].current_offset >= predictions[k].current_offset]_vars

\* the stored offset alone: it never decreases while the record is launched
C28_StoredOffsetNeverDecreases ==
    [][\A k \in DOMAIN predictions \cap DOMAIN predictions' :
          (predictions[k].launched /\ predictions'[k].launched)
          => predictions'[k].current_offset >= predictions[k].current_offset]_vars

\* a launched record stands at offset 1 or 2 and is not resolved: a message
\* of its own number is below its target
C28_Witness ==
    /\ AllIdle
    /\ \E k \in DOMAIN predictions :
          /\ predictions[k].launched /\ ~predictions[k].verified
          /\ predictions[k].current_offset > 0


FailedAttempt(m, rec, k, r) ==
    /\ NewOffset(m, rec, k, r)
    /\ m.pt # NoPoint /\ ~Satisfies(rec.expected, m.pt)

\* C29: when the handling of a finalized message ends whose number is at a
\* new offset c of a live record (attempts < c <= r_offset) and whose point
\* does not satisfy the record's outcome, the record is pending with
\* attempts = c if c < r_offset, and verified with the failure status if
\* c >= r_offset.
C29_FailedAttempt ==
    \A e \in EndingRuns : \A k \in DOMAIN e.act.pre :
        FailedAttempt(e.act.msg, e.act.pre[k], k, e.act.pre_r)
        => IF e.act.msg.num - k < e.act.pre_r
           THEN /\ ~e.w.ap[k].verified
                /\ e.w.ap[k].status = e.act.pre[k].status
                /\ e.w.ap[k].attempts = e.act.msg.num - k
           ELSE /\ e.w.ap[k].verified
                /\ e.w.ap[k].status = "X"

\* the same when no edit for the record raised during the handling
C29_FailedAttemptEdited ==
    \A e \in EndingRuns : \A k \in DOMAIN e.act.pre :
        (FailedAttempt(e.act.msg, e.act.pre[k], k, e.act.pre_r) /\ ~EditRaisedFor(e, k))
        => IF e.act.msg.num - k < e.act.pre_r
           THEN /\ ~e.w.ap[k].verified
                /\ e.w.ap[k].status = e.act.pre[k].status
                /\ e.w.ap[k].attempts = e.act.msg.num - k
           ELSE /\ e.w.ap[k].verified
                /\ e.w.ap[k].status = "X"

\* a failed attempt at the last offset has ended with an edit that raised,
\* and the record is not verified
C29_Witness ==
    \E f \in last :
        /\ f[1] = "edit_failure" /\ f[4] = FALSE
        /\ ~active_predictions[f[2]].verified


IsEdit(f) == f[1] \in {"edit_expired", "edit_success", "edit_failure"}

SuccessTokens == {VERIFICATION_EMOJIS[i] : i \in DOMAIN VERIFICATION_EMOJIS}

\* the index a success token stands for
TokenIndex(tok) == (CHOOSE i \in DOMAIN VERIFICATION_EMOJIS : VERIFICATION_EMOJIS[i] = tok) - 1

\* C31: when the handling of a message of number G ends with a live record
\* of number P newly verified with a success token, the token is the one of
\* index G - P and 0 <= G - P <= r_offset; and when the pass over the
\* imported records asks for the edit of a record of number P to a success
\* token, the token is the one of index G - P and 0 <= G - P <= 2.
C31_SuccessIndex ==
    /\ \A e \in EndingRuns : \A k \in DOMAIN e.act.pre :
          (/\ ~e.act.pre[k].verified
           /\ e.w.ap[k].verified
           /\ e.w.ap[k].status \in SuccessTokens)
          => /\ TokenIndex(e.w.ap[k].status) = e.act.msg.num - k
             /\ e.act.msg.num - k >= 0
             /\ e.act.msg.num - k <= e.act.pre_r
    /\ \A e \in ExcelNextRuns :
          (e.act.pc = "xedit" /\ e.act.emoji \in SuccessTokens)
          => /\ TokenIndex(e.act.emoji) = e.act.msg.num - e.w.xp[e.act.key].numero
             /\ e.act.msg.num - e.w.xp[e.act.key].numero \in 0..ExcelMaxOffset

\* a live record has been resolved to a success by an edit that returned
C31_Witness ==
    \E f \in last :
        /\ f[1] = "edit_success" /\ f[4]
        /\ active_predictions[f[2]].verified
        /\ active_predictions[f[2]].status = f[3]


\* ------------------------------- one number followed by the two trackers
\* a live record registered for a number and an imported record of the same
\* number and outcome, launched
VerdictNums == {1, 2}

Launched(P, expected) ==
    [ImportedRecord([numero |-> P, victoire |-> expected])
       EXCEPT !.launched = TRUE, !.message_id = TRUE, !.channel_id = TRUE]

InitVerdict ==
    /\ \E P \in VerdictNums : \E expected \in Outcomes :
          /\ active_predictions = [k \in {P} |-> NewRecord(expected)]
          /\ active_order = <<P>>
          /\ predictions = [k \in {P} |-> Launched(P, expected)]
          /\ predictions_order = <<P>>
          /\ last_launched_numero = P
          /\ delivered = [k \in Keys |-> IF k = P THEN 1 ELSE 0]
    /\ r_offset = DefaultR
    /\ a_offset = DefaultA
    /\ config_file = [active_predictions |-> active_predictions,
                      active_order |-> active_order,
                      r_offset |-> r_offset, a_offset |-> a_offset]
    /\ predictions_file = predictions
    /\ acts = [i \in ActIds |-> Idle]
    /\ compared = {}
    /\ recompared = {}
    /\ skipped = {}
    /\ workbook = <<>>
    /\ last = {}

\* finalized messages with every point value, none of them a trigger
VerdictMessages == {Msg(n, {"check"}, p, SigPlain) : n \in Games, p \in PointValues}

VerdictLiveArrives == \E m \in VerdictMessages : AllIdle /\ NewMessage(1, m)

VerdictExcelArrives == \E m \in VerdictMessages : AllIdle /\ ExcelMessage(1, m)

NextVerdict ==
    \/ VerdictLiveArrives
    \/ EditReturns
    \/ EditRaises
    \/ VerdictExcelArrives
    \/ ExcelEditReturns
    \/ ExcelEditRaises

SpecVerdict == InitVerdict /\ [][NextVerdict]_vars

\* both trackers compare the point of m for the record of number k
BothCompare(m, k) ==
    /\ k \in DOMAIN active_predictions /\ k \in DOMAIN predictions
    /\ active_predictions[k].expected = predictions[k].victoire
    /\ ComparedIn(StartRun(m), k)
    /\ \E f \in StartExcelRun(m).act.fx : f[1] = "compare" /\ f[2] = k

\* C32: the two comparisons give the same verdict on every point value and
\* outcome, and whenever the two trackers both compare the point of one
\* message for records of the same number and outcome, either both go to
\* the success edit or neither does.
C32_SameVerdict ==
    /\ \A v \in PointValues : \A expected \in Outcomes :
          LiveIsSuccess(expected, v) <=> ExcelIsSuccess(expected, v)
    /\ AllIdle => \A m \in VerdictMessages : \A k \in VerdictNums :
          BothCompare(m, k)
          => (SucceedsIn(StartRun(m), k) <=> ExcelSucceedsIn(StartExcelRun(m), k))

\* the two trackers are about to compare a point of 6 for a joueur record
\* at an offset the live record has reached after a failed attempt
C32_Witness ==
    /\ AllIdle
    /\ \E k \in VerdictNums : \E m \in VerdictMessages :
          /\ m.pt = JoueurMin - 1
          /\ BothCompare(m, k)
          /\ active_predictions[k].expected = "joueur"
          /\ active_predictions[k].attempts = 1


\* ------------------------------------------ the stream that keeps going
\* r_offset as bot_config.json gives it at the start, not changed afterwards
LaterValues == {0, 1, DefaultR}

InitLater ==
    /\ active_predictions \in InitialMaps
    /\ active_order = InitialOrder(active_predictions)
    /\ r_offset \in LaterValues
    /\ a_offset = DefaultA
    /\ config_file = [active_predictions |-> active_predictions,
                      active_order |-> active_order,
                      r_offset |-> r_offset, a_offset |-> a_offset]
    /\ predictions = EmptyMap
    /\ predictions_order = <<>>
    /\ last_launched_numero = 0
    /\ predictions_file = EmptyMap
    /\ acts = [i \in ActIds |-> Idle]
    /\ delivered = [k \in Keys |-> 0]
    /\ compared = {}
    /\ recompared = {}
    /\ skipped = {}
    /\ workbook = <<>>
    /\ last = {}

LaterMessages ==
    {m \in LiveMessages : m.marks = {"check"} /\ m.pt \in {BanquierMax, JoueurMin}}

\* the finalized message of the highest number of the stream
LastMessage == Msg(MaxGame, {"check"}, JoueurMin, SigPlain)

LaterMessageArrives == \E m \in LaterMessages : AllIdle /\ NewMessage(1, m)

LastMessageArrives == AllIdle /\ NewMessage(1, LastMessage)

NextLater ==
    \/ LaterMessageArrives
    \/ LastMessageArrives
    \/ EditReturns
    \/ EditRaises
    \/ SendReturns
    \/ SendRaises

\* every awaited call ends, by its return or by an exception, and the
\* stream goes on to the higher numbers
SpecLater ==
    /\ InitLater /\ [][NextLater]_vars
    /\ WF_vars(EditReturns \/ EditRaises)
    /\ WF_vars(SendReturns \/ SendRaises)
    /\ SF_vars(LastMessageArrives)

\* C33: with r_offset fixed, every live record whose window ends below the
\* numbers the stream goes on to is verified from some point on, whether the
\* edits return or raise.
C33_LiveEventuallyVerified ==
    \A k \in Keys :
        (k \in DOMAIN active_predictions /\ k + r_offset < MaxGame)
        ~> [](k \in DOMAIN active_predictions /\ active_predictions[k].verified)

\* a record has been verified by the forced failure although its edit raised
C33_Witness ==
    \E f \in last :
        /\ f[1] = "edit_expired" /\ f[4] = FALSE
        /\ active_predictions[f[2]].verified
        /\ active_predictions[f[2]].message_id


BeyondWindow(m, rec) ==
    /\ rec.launched /\ ~rec.verified
    /\ m.num > rec.numero + ExcelMaxOffset

\* C34: when the handling of a message of a number above P + 2 ends, every
\* launched imported record of number P is verified, with or without a
\* message reference and whether its edit returned or raised.
C34_VerifiedBeyondWindow ==
    \A e \in ExcelEndingRuns : \A k \in DOMAIN e.act.pre :
        BeyondWindow(e.act.msg, e.act.pre[k]) => e.w.xp[k].verified

\* the edit of a launched record to the failure status has raised and the
\* record is left not verified
C34_Witness ==
    \E f \in last :
        /\ f[1] = "xedit" /\ f[3] = "X" /\ f[4] = FALSE
        /\ predictions[f[2]].launched /\ ~predictions[f[2]].verified


\* C35: a live record is verified iff it carries a terminal status, a
\* success token or the failure token.
C35_VerifiedIffStatus ==
    \A k \in DOMAIN active_predictions :
        active_predictions[k].verified
        <=> active_predictions[k].status \in SuccessTokens \cup {"X"}

\* a record verified with a success token next to a pending record that
\* has made an attempt
C35_Witness ==
    /\ \E k \in DOMAIN active_predictions :
          active_predictions[k].verified /\ active_predictions[k].status \in SuccessTokens
    /\ \E k \in DOMAIN active_predictions :
          ~active_predictions[k].verified /\ active_predictions[k].attempts > 0


InitEdits ==
    /\ \E e1 \in Outcomes : \E e2 \in Outcomes :
          active_predictions = [k \in {1, 2} |-> NewRecord(IF k = 1 THEN e1 ELSE e2)]
    /\ active_order = <<1, 2>>
    /\ r_offset = DefaultR
    /\ a_offset = DefaultA
    /\ config_file = [active_predictions |-> active_predictions,
                      active_order |-> active_order,
                      r_offset |-> r_offset, a_offset |-> a_offset]
    /\ predictions = EmptyMap
    /\ predictions_order = <<>>
    /\ last_launched_numero = 0
    /\ predictions_file = EmptyMap
    /\ acts = [i \in ActIds |-> Idle]
    /\ delivered = [k \in Keys |-> IF k \in {1, 2} THEN 1 ELSE 0]
    /\ compared = {}
    /\ recompared = {}
    /\ skipped = {}
    /\ workbook = <<>>
    /\ last = {}

EditsMessages ==
    {Msg(n, {"check"}, p, SigPlain) : n \in Games, p \in {BanquierMax, JoueurMin}}

EditsMessageArrives == \E m \in EditsMessages : NewMessage(1, m)

EditsSecondArrives == \E m \in EditsMessages : acts[1].pc # "idle" /\ NewMessage(2, m)

NextEdits ==
    \/ EditsMessageArrives
    \/ EditsSecondArrives
    \/ ConcEditReturns
    \/ ConcEditRaises

SpecEdits == InitEdits /\ [][NextEdits]_vars

\* C37: with two activations of the handler, no two terminal edits are in
\* flight for one live record, and a record that is verified keeps its
\* status and stays verified in every step.
C37_SingleResolution ==
    /\ [](~(Editing(1) /\ Editing(2) /\ acts[1].key = acts[2].key))
    /\ [][\A k \in DOMAIN active_predictions :
             active_predictions[k].verified
             => /\ k \in DOMAIN active_predictions'
                /\ active_predictions'[k].verified
                /\ active_predictions'[k].status = active_predictions[k].status]_vars

\* one activation waits for the success edit of a record while the other
\* waits for an edit of the same record
C37_Witness ==
    /\ Editing(1) /\ Editing(2)
    /\ acts[1].key = acts[2].key
    /\ "edit_success" \in {acts[1].pc, acts[2].pc}


\* C38: when the deliver of a trigger raises, the handler ends with the
\* record map, its order, the saved snapshot and the deliveries as they
\* were, and the trigger step of a later event for the same message comes to
\* the deliver of the same number again; a record has a message reference
\* only from a deliver that returned.
C38_DeliverFailureChangesNothing ==
    /\ acts[1].pc = "send" =>
          LET e == ResumeSend(acts[1], FALSE)
              again == TriggerStep([Idle EXCEPT !.msg = acts[1].msg], e.w)
          IN  /\ e.act.pc = "done"
              /\ e.w.ap = active_predictions
              /\ e.w.order = active_order
              /\ e.w.file = config_file
              /\ e.w.dl = delivered
              /\ again.act.pc = "send"
              /\ again.act.key = acts[1].key
    /\ \A k \in DOMAIN active_predictions :
          (active_predictions[k].message_id \/ active_predictions[k].channel_id)
          => /\ delivered[k] >= 1
             /\ active_predictions[k].message_id /\ active_predictions[k].channel_id

\* a deliver has raised: its number is not registered and was never
\* delivered, and the saved snapshot is the record map
C38_Witness ==
    \E f \in last :
        /\ f[1] = "send" /\ f[4] = FALSE
        /\ f[2] \notin DOMAIN active_predictions
        /\ delivered[f[2]] = 0
        /\ config_file.active_predictions = active_predictions


\* C39: the pass over the imported records for a message without a
\* finalization marker, whatever its number, ends without asking for an
\* edit and leaves every launched record with its stored offset and its
\* verified flag.
C39_NonFinalizedLeavesImported ==
    AllIdle => \A m \in ExcelMessages :
        NotFinalized(m)
        => /\ StartExcelRun(m).act.pc = "done"
           /\ \A k \in DOMAIN predictions :
                 predictions[k].launched
                 => /\ StartExcelRun(m).w.xp[k].current_offset = predictions[k].current_offset
                    /\ StartExcelRun(m).w.xp[k].verified = predictions[k].verified

\* a launched record waits at offset 0 for its own number
C39_Witness ==
    /\ AllIdle
    /\ \E k \in DOMAIN predictions :
          /\ predictions[k].launched /\ ~predictions[k].verified
          /\ predictions[k].message_id
          /\ predictions[k].current_offset = 0
          /\ \E m \in ExcelMessages : NotFinalized(m) /\ m.num > predictions[k].numero

====
